---- MODULE Spec2Model ----
(***************************************************************************)
(* Verification model of the content-analysis pipeline of                  *)
(* bilibili_analyzer: TokenManager (quota ledger), MemoryCache (TTL + LRU  *)
(* cache), ChunkProcessor (token-bounded chunking), ContentAnalyzer and    *)
(* AnalysisService (per-chunk LLM calls and merge).                        *)
(*                                                                         *)
(* Conventions                                                             *)
(*  - time.time() is the variable now, in whole seconds.  Several calls    *)
(*    may read the same clock value; Tick advances it.                     *)
(*  - money is kept in micro-dollars (1.0 dollar = 1000000), so the float  *)
(*    sums of the source become integer sums.                              *)
(*  - Python's None is the string "None".                                  *)
(***************************************************************************)
EXTENDS Integers, Sequences, FiniteSets, TLC

VARIABLES
    now,            \* time.time()
    usage_history,  \* TokenManager.usage_history
    model_stats,    \* TokenManager.model_stats
    task_stats,     \* TokenManager.task_stats
    tm_ret,         \* the last TokenManager call and what it returned
    ticks,          \* number of clock advances so far (bounds the run)
    max_size,       \* MemoryCache.config.max_size
    cache,          \* MemoryCache.cache, in dictionary (insertion) order
    stats,          \* MemoryCache.stats
    last_cleanup,   \* MemoryCache.last_cleanup
    mc_ret,         \* the last MemoryCache call and what it returned
    recency,        \* keys present, least recently set or read first
    text,           \* the text handed to ChunkProcessor.chunk_text
    config,         \* ChunkProcessor.config
    cp_ret,         \* what chunk_text returned, or that it raised
    an_cache,       \* ContentAnalyzer.cache
    cache_timestamps, \* ContentAnalyzer.cache_timestamps
    analysed,         \* the last result a chat call gave for (content, service_name)
    llm_log,        \* chat calls issued since the current request began
    req,            \* the analysis request in progress
    requests,       \* number of requests begun so far (bounds the run)
    db,             \* the latest Analysis row of every video
    an_ret,         \* the last analysis step and what it returned
    threads,        \* the calls of concurrent request threads in progress
    call,           \* a provider chat call under its retry policy
    manager,        \* LLMServiceManager.services and .default_service
    lm_ret          \* the last LLMServiceManager call and what it returned

tmVars == <<usage_history, model_stats, task_stats, tm_ret>>
mcVars == <<max_size, cache, stats, last_cleanup, mc_ret, recency>>
cpVars == <<text, config, cp_ret>>
anVars == <<an_cache, cache_timestamps, analysed, llm_log, req, requests, db, an_ret>>
thVars == <<threads>>
rtVars == <<call>>
lmVars == <<manager, lm_ret>>
vars == <<now, ticks, usage_history, model_stats, task_stats, tm_ret,
          max_size, cache, stats, last_cleanup, mc_ret, recency,
          text, config, cp_ret,
          an_cache, cache_timestamps, analysed, llm_log, req, requests, db,
          an_ret,
          threads, call, manager, lm_ret>>

None == "None"

(***************************************************************************)
(* Generic helpers                                                         *)
(***************************************************************************)
Min2(a, b) == IF a <= b THEN a ELSE b
Max2(a, b) == IF a >= b THEN a ELSE b

RECURSIVE SumSeq(_)
SumSeq(s) == IF s = <<>> THEN 0 ELSE Head(s) + SumSeq(Tail(s))

(***************************************************************************)
(* Bounds of the model                                                     *)
(***************************************************************************)
MaxTicks   == 2     \* clock advances per run
MaxHistory == 2     \* record_usage calls per run

\* The clock at construction.  Only now modulo the reset intervals and the
\* differences between clock readings matter, so a small positive start
\* stands for any start congruent to it.
StartTime == 1

\* Clock advances: a second, a day, a week, 30 days.
TickSteps == {1, 86400, 604800, 2592000}

(***************************************************************************)
(* TokenManager                                                            *)
(***************************************************************************)
DAILY   == "daily"
WEEKLY  == "weekly"
MONTHLY == "monthly"
TokenLimitType == {DAILY, WEEKLY, MONTHLY}

\* TokenManager(daily_token_limit, daily_cost_limit, ...) as configured for
\* the runs of this model: the daily ceilings of the unit tests (1000
\* tokens, 1.0 dollar) and weekly / monthly ceilings of twice and three
\* times that.
daily_token_limit   == 1000
daily_cost_limit    == 1000000
weekly_token_limit  == 2000
weekly_cost_limit   == 2000000
monthly_token_limit == 3000
monthly_cost_limit  == 3000000

DAILY_INTERVAL   == 86400
WEEKLY_INTERVAL  == 604800
MONTHLY_INTERVAL == 2592000
RETENTION_DAYS   == 30

\* self.limits[limit_type]
limits(limit_type) ==
    CASE limit_type = DAILY ->
           [max_tokens |-> daily_token_limit, max_cost |-> daily_cost_limit,
            reset_interval |-> DAILY_INTERVAL]
      [] limit_type = WEEKLY ->
           [max_tokens |-> weekly_token_limit, max_cost |-> weekly_cost_limit,
            reset_interval |-> WEEKLY_INTERVAL]
      [] limit_type = MONTHLY ->
           [max_tokens |-> monthly_token_limit, max_cost |-> monthly_cost_limit,
            reset_interval |-> MONTHLY_INTERVAL]

\* now - (now % limit.reset_interval)
period_start(limit_type, t) == t - (t % limits(limit_type).reset_interval)

\* TokenManager._get_period_usage, evaluated on history h at clock t
_get_period_usage_at(h, limit_type, t) ==
    LET period_usage ==
            SelectSeq(h, LAMBDA usage :
                /\ period_start(limit_type, t) <= usage.timestamp
                /\ usage.timestamp < t)
    IN  [tokens |-> SumSeq([i \in 1..Len(period_usage) |-> period_usage[i].tokens]),
         cost   |-> SumSeq([i \in 1..Len(period_usage) |-> period_usage[i].cost])]

_get_period_usage(limit_type) == _get_period_usage_at(usage_history, limit_type, now)

\* TokenManager.check_limit with '>=' in place of '>'
check_limit_on_AtCeiling(h, t, tokens, cost, limit_type) ==
    LET limit == limits(limit_type)
        current_usage == _get_period_usage_at(h, limit_type, t)
    IN  IF current_usage.tokens + tokens >= limit.max_tokens THEN FALSE
        ELSE IF current_usage.cost + cost >= limit.max_cost THEN FALSE
        ELSE TRUE

\* TokenManager.check_limit
check_limit_on(h, t, tokens, cost, limit_type) ==
    LET limit == limits(limit_type)
        current_usage == _get_period_usage_at(h, limit_type, t)
    IN  IF current_usage.tokens + tokens > limit.max_tokens THEN FALSE
        ELSE IF current_usage.cost + cost > limit.max_cost THEN FALSE
        ELSE TRUE

check_limit(tokens, cost, limit_type) ==
    check_limit_on(usage_history, now, tokens, cost, limit_type)

\* TokenManager.get_usage_stats: the TokenStats it returns
get_usage_stats(limit_type) ==
    LET current_usage == _get_period_usage(limit_type)
        period_end == period_start(limit_type, now)
                         + limits(limit_type).reset_interval
    IN  [total_tokens |-> current_usage.tokens,
         total_cost |-> current_usage.cost,
         usage_by_model |-> model_stats,
         usage_by_task |-> task_stats,
         daily_usage |->
            SelectSeq(usage_history, LAMBDA usage :
                /\ period_start(limit_type, now) <= usage.timestamp
                /\ usage.timestamp < period_end),
         current_period_start |-> period_start(limit_type, now),
         current_period_end |-> period_end]

\* TokenManager._cleanup_old_data
_cleanup_old_data(h, t) ==
    SelectSeq(h, LAMBDA usage : usage.timestamp >= t - (RETENTION_DAYS * 86400))

\* one of the dictionaries model_stats / task_stats after a record
stats_add(d, key, tokens, cost) ==
    LET old == IF key \in DOMAIN d THEN d[key]
               ELSE [total_tokens |-> 0, total_cost |-> 0, usage_count |-> 0]
        new == [total_tokens |-> old.total_tokens + tokens,
                total_cost   |-> old.total_cost + cost,
                usage_count  |-> old.usage_count + 1]
    IN  [k \in DOMAIN d \cup {key} |-> IF k = key THEN new ELSE d[k]]

\* number of record_usage calls counted in a statistics dictionary
RECURSIVE usage_count_of(_, _)
usage_count_of(d, keys) ==
    IF keys = {} THEN 0
    ELSE LET k == CHOOSE x \in keys : TRUE
         IN  d[k].usage_count + usage_count_of(d, keys \ {k})

usage_count(d) == usage_count_of(d, DOMAIN d)

\* TokenManager.record_usage as an update of the three fields
record_usage(tokens, cost, model, task_type) ==
    /\ usage_history' =
          _cleanup_old_data(
              Append(usage_history,
                     [timestamp |-> now, tokens |-> tokens, cost |-> cost,
                      model |-> model, task_type |-> task_type]),
              now)
    /\ model_stats' = stats_add(model_stats, model, tokens, cost)
    /\ task_stats'  = stats_add(task_stats, task_type, tokens, cost)

(***************************************************************************)
(* MemoryCache                                                             *)
(***************************************************************************)
MaxSize == 2        \* largest max_size tried
MaxSets == 3        \* set calls per run
MaxGets == 2        \* get calls per run
MaxDeletes == 1     \* delete calls are made while stats.deletes is below this

DEFAULT_TTL      == 3600    \* CacheConfig.default_ttl
CLEANUP_INTERVAL == 300     \* CacheConfig.cleanup_interval

Keys   == {"a", "b", "c"}
\* the (value, ttl) arguments of set: ttl 0 stands for an absent ttl (None
\* and 0 both select the default in 'ttl or default_ttl'), or one second
SetArgs == {[value |-> "v1", ttl |-> 0], [value |-> "v2", ttl |-> 1]}
\* clock advances tried against the cache: a second, past the cleanup
\* interval
CacheTickSteps == {1, 301}

\* MemoryCache._serialize / _deserialize with enable_compression (the
\* default): pickle.dumps wraps the value, pickle.loads unwraps it
_serialize(value) == [pickled |-> value]
_deserialize(stored) == stored.pickled

\* keys(), in dictionary order
key_list(c) == [i \in 1..Len(c) |-> c[i].key]
key_set(c) == {c[i].key : i \in 1..Len(c)}

\* position of key in the dictionary, 0 when absent
index_of(c, key) ==
    IF key \in key_set(c) THEN CHOOSE i \in 1..Len(c) : c[i].key = key ELSE 0

\* CacheEntry.is_expired with the age counted from last_access
is_expired_SinceAccess(entry, t) == t - Max2(entry.created_at, entry.last_access) > entry.ttl

\* CacheEntry.is_expired
is_expired(entry, t) == t - entry.created_at > entry.ttl

remove_key(c, key) == SelectSeq(c, LAMBDA e : e.key # key)

\* MemoryCache.cleanup: every expired entry goes through _delete_entry
cleanup(c, st, t) ==
    LET expired == {i \in 1..Len(c) : is_expired(c[i], t)}
    IN  [cache |-> SelectSeq(c, LAMBDA e : ~ is_expired(e, t)),
         stats |-> [st EXCEPT !.deletes = @ + Cardinality(expired)]]

\* MemoryCache._periodic_cleanup
_periodic_cleanup(c, st, lc, t) ==
    IF t - lc > CLEANUP_INTERVAL
    THEN [cache |-> cleanup(c, st, t).cache, stats |-> cleanup(c, st, t).stats,
          last_cleanup |-> t]
    ELSE [cache |-> c, stats |-> st, last_cleanup |-> lc]

\* min(self.cache.keys(), key=last_access): the first key, in dictionary
\* order, whose last_access is minimal
lru_index(c) ==
    CHOOSE i \in 1..Len(c) :
        /\ \A j \in 1..Len(c) : c[i].last_access <= c[j].last_access
        /\ \A j \in 1..(i - 1) : c[j].last_access > c[i].last_access

\* MemoryCache._evict_lru
_evict_lru(c, st) ==
    IF c = <<>> THEN [cache |-> c, stats |-> st, evicted |-> None]
    ELSE [cache |-> remove_key(c, c[lru_index(c)].key),
          stats |-> [st EXCEPT !.deletes = @ + 1, !.evictions = @ + 1],
          evicted |-> c[lru_index(c)].key]

\* self.cache[key] = entry: an existing key keeps its place in the dictionary
dict_put(c, entry) ==
    IF entry.key \in key_set(c)
    THEN [i \in 1..Len(c) |-> IF c[i].key = entry.key THEN entry ELSE c[i]]
    ELSE Append(c, entry)

\* MemoryCache.set where the size check comes after the insertion
set_result_EvictAfter(c, st, size, key, value, ttl, t) ==
    LET entry == [key |-> key, value |-> _serialize(value), created_at |-> t,
                  ttl |-> IF ttl = 0 THEN DEFAULT_TTL ELSE ttl,
                  access_count |-> 0, last_access |-> 0]
        put == dict_put(c, entry)
        ev == IF Len(put) > size THEN _evict_lru(put, st)
              ELSE [cache |-> put, stats |-> st, evicted |-> None]
    IN  [cache |-> ev.cache,
         stats |-> [ev.stats EXCEPT !.sets = @ + 1],
         evicted |-> ev.evicted]

\* MemoryCache.set
set_result(c, st, size, key, value, ttl, t) ==
    LET ev == IF Len(c) >= size THEN _evict_lru(c, st)
              ELSE [cache |-> c, stats |-> st, evicted |-> None]
        entry == [key |-> key, value |-> _serialize(value), created_at |-> t,
                  ttl |-> IF ttl = 0 THEN DEFAULT_TTL ELSE ttl,
                  access_count |-> 0, last_access |-> 0]
    IN  [cache |-> dict_put(ev.cache, entry),
         stats |-> [ev.stats EXCEPT !.sets = @ + 1],
         evicted |-> ev.evicted]

\* MemoryCache.get
get_result(c, st, lc, key, t) ==
    LET pc == _periodic_cleanup(c, st, lc, t)
        i == index_of(pc.cache, key)
    IN  IF i = 0
        THEN [cache |-> pc.cache, stats |-> [pc.stats EXCEPT !.misses = @ + 1],
              last_cleanup |-> pc.last_cleanup, value |-> None]
        ELSE IF is_expired(pc.cache[i], t)
        THEN [cache |-> remove_key(pc.cache, key),
              stats |-> [pc.stats EXCEPT !.deletes = @ + 1, !.misses = @ + 1],
              last_cleanup |-> pc.last_cleanup, value |-> None]
        ELSE [cache |-> [pc.cache EXCEPT ![i].access_count = @ + 1,
                                         ![i].last_access = t],
              stats |-> [pc.stats EXCEPT !.hits = @ + 1],
              last_cleanup |-> pc.last_cleanup,
              value |-> _deserialize(pc.cache[i].value)]

\* MemoryCache.delete
delete_result(c, st, key) ==
    IF key \in key_set(c)
    THEN [cache |-> remove_key(c, key), stats |-> [st EXCEPT !.deletes = @ + 1],
          value |-> TRUE]
    ELSE [cache |-> c, stats |-> st, value |-> FALSE]

\* a quotient of two counters, kept as the fraction it is
ratio(num, den) == [num |-> num, den |-> den]
ZeroRate == ratio(0, 1)

\* MemoryCache.get_stats with the sets counted among the requests
get_stats_CountingSets(c, st, size) ==
    LET total_requests == st.hits + st.misses + st.sets
    IN  [size |-> Len(c), max_size |-> size,
         hits |-> st.hits, misses |-> st.misses,
         hit_rate |-> IF total_requests > 0 THEN ratio(st.hits, total_requests)
                      ELSE ZeroRate,
         sets |-> st.sets, deletes |-> st.deletes, evictions |-> st.evictions]

\* MemoryCache.get_stats
get_stats(c, st, size) ==
    LET total_requests == st.hits + st.misses
    IN  [size |-> Len(c), max_size |-> size,
         hits |-> st.hits, misses |-> st.misses,
         hit_rate |-> IF total_requests > 0 THEN ratio(st.hits, total_requests)
                      ELSE ZeroRate,
         sets |-> st.sets, deletes |-> st.deletes, evictions |-> st.evictions]

\* what a lookup of key finds in c at clock t: nothing, a live entry or an
\* expired one, and how often the entry had been read
entry_state(c, key, t) ==
    IF key \notin key_set(c) THEN [state |-> "absent", reads |-> 0]
    ELSE [state |-> IF t - c[index_of(c, key)].created_at > c[index_of(c, key)].ttl
                    THEN "expired" ELSE "live",
          reads |-> c[index_of(c, key)].access_count]

\* the keys of order that are still in c, then key when it was touched
touch(order, c, key, touched) ==
    LET kept == SelectSeq(order, LAMBDA k : k \in key_set(c) /\ (touched => k # key))
    IN  IF touched THEN Append(kept, key) ELSE kept

\* MemoryCache.__init__
MCInit ==
    /\ cache = <<>>
    /\ stats = [hits |-> 0, misses |-> 0, sets |-> 0, deletes |-> 0, evictions |-> 0]
    /\ last_cleanup = now
    /\ mc_ret = [op |-> "init"]
    /\ recency = <<>>

\* the cache of a run that does not use it
MCIdle ==
    /\ max_size = MaxSize
    /\ MCInit

(***************************************************************************)
(* ChunkProcessor                                                          *)
(*                                                                         *)
(* A text is a sequence of characters.  One character stands for each      *)
(* class the code tells apart: a CJK character (U+4E00..U+9FFF), a Latin   *)
(* letter, a space, a sentence terminator other than newline (one of the   *)
(* three full-width marks of the pattern) and a newline, which is both     *)
(* a terminator for re.split and white space for strip() and split().      *)
(***************************************************************************)
MaxLen       == 5   \* longest text tried
MaxMaxTokens == 2   \* largest ChunkConfig.max_tokens tried

ZH    == "Z"
LATIN == "a"
SPACE == " "
STOP  == "."
NL    == "\n"
Alphabet == {ZH, LATIN, SPACE, STOP, NL}

is_terminal(ch) == ch \in {STOP, NL}
is_space(ch) == ch \in {SPACE, NL}

CHARS_PER_TOKEN == 3    \* the chars-per-token estimate of the chunker
LOOK_BACK       == 500  \* _find_sentence_end searches this many chars back

\* Python's s[a:b] for 0 <= a
slice(s, a, b) == SubSeq(s, a + 1, Min2(b, Len(s)))

\* ''.join(parts)
RECURSIVE join(_)
join(parts) == IF parts = <<>> THEN <<>> ELSE Head(parts) \o join(Tail(parts))

\* str.strip()
RECURSIVE lstrip(_)
lstrip(s) == IF s # <<>> /\ is_space(Head(s)) THEN lstrip(Tail(s)) ELSE s

RECURSIVE rstrip(_)
rstrip(s) ==
    IF s # <<>> /\ is_space(s[Len(s)]) THEN rstrip(SubSeq(s, 1, Len(s) - 1)) ELSE s

strip(s) == rstrip(lstrip(s))

\* len(text.split()): the maximal runs of non-space characters
word_count(s) ==
    Cardinality({i \in 1..Len(s) : ~ is_space(s[i]) /\ (i = 1 \/ is_space(s[i - 1]))})

\* SimpleTokenCounter.encode: int(chinese_chars * 2 + english_words * 1.3),
\* in tenths, int() truncating towards zero
encode(s) ==
    LET chinese_chars == Cardinality({i \in 1..Len(s) : s[i] = ZH})
        english_words == word_count(s) - chinese_chars
        tenths == chinese_chars * 20 + english_words * 13
    IN  IF tenths >= 0 THEN tenths \div 10 ELSE -((-tenths) \div 10)

\* ChunkProcessor.count_tokens
count_tokens(s) == encode(s)

\* re.split(r'([terminators])', text): text, terminator, text, ..., text
RECURSIVE re_split(_)
re_split(s) ==
    IF \A i \in 1..Len(s) : ~ is_terminal(s[i]) THEN <<s>>
    ELSE LET i == CHOOSE j \in 1..Len(s) :
                     is_terminal(s[j]) /\ \A k \in 1..(j - 1) : ~ is_terminal(s[k])
         IN  <<SubSeq(s, 1, i - 1), <<s[i]>>>> \o re_split(SubSeq(s, i + 1, Len(s)))

\* ChunkProcessor._split_into_sentences: range(0, len(sentences) - 1, 2)
\* pairs each text with the terminator after it and never reaches the last
\* element, the text after the last terminator
_split_into_sentences(s) ==
    LET sentences == re_split(s)
        n == (Len(sentences) - 1) \div 2
        combined == [k \in 1..n |-> sentences[2 * k - 1] \o sentences[2 * k]]
        stripped == [k \in 1..n |-> strip(combined[k])]
    IN  SelectSeq(stripped, LAMBDA x : x # <<>>)

\* ChunkProcessor._find_sentence_end searching the whole text before position
_find_sentence_end_NoWindow(s, position) ==
    LET matches == {i \in 1..position : is_terminal(s[i])}
    IN  IF matches # {}
        THEN CHOOSE i \in matches : \A j \in matches : j <= i
        ELSE position

\* ChunkProcessor._find_sentence_end
_find_sentence_end(s, position) ==
    LET search_start == Max2(0, position - LOOK_BACK)
        matches == {i \in (search_start + 1)..position : is_terminal(s[i])}
    IN  IF matches # {}
        THEN CHOOSE i \in matches : \A j \in matches : j <= i
        ELSE position

\* ChunkProcessor._split_long_sentence; range() raises ValueError on a zero
\* step
_split_long_sentence(sentence, max_tokens) ==
    LET tokens == count_tokens(sentence)
        target_chars == (Len(sentence) * max_tokens) \div tokens
        n == (Len(sentence) + target_chars - 1) \div target_chars
    IN  IF tokens <= max_tokens THEN [raised |-> FALSE, chunks |-> <<sentence>>]
        ELSE IF target_chars = 0 THEN [raised |-> TRUE, chunks |-> <<>>]
        ELSE [raised |-> FALSE,
              chunks |-> [k \in 1..n |->
                            slice(sentence, (k - 1) * target_chars, k * target_chars)]]

TextChunk(content, start_index, end_index) ==
    [content |-> content, start_index |-> start_index, end_index |-> end_index]

\* the chunks appended for the pieces of a force-split sentence
RECURSIVE sub_chunks(_, _)
sub_chunks(pieces, start_index) ==
    IF pieces = <<>> THEN <<>>
    ELSE <<TextChunk(Head(pieces), start_index, start_index + Len(Head(pieces)))>>
         \o sub_chunks(Tail(pieces), start_index + Len(Head(pieces)))

\* one iteration of the loop of _semantic_chunking over sentence, from the
\* loop state st = (chunks, current_chunk, current_tokens, start_index)
sem_step(st, sentence, max_tokens) ==
    LET sentence_tokens == count_tokens(sentence)
        chunk_content == join(st.current_chunk)
        flushed == Append(st.chunks,
                          TextChunk(chunk_content, st.start_index,
                                    st.start_index + Len(chunk_content)))
    IN  IF sentence_tokens > max_tokens
        THEN LET chunks1 == IF st.current_chunk # <<>> THEN flushed ELSE st.chunks
                 start1 == IF st.current_chunk # <<>>
                           THEN st.start_index + Len(chunk_content)
                           ELSE st.start_index
                 tokens1 == IF st.current_chunk # <<>> THEN 0 ELSE st.current_tokens
                 split == _split_long_sentence(sentence, max_tokens)
             IN  [raised |-> split.raised,
                  chunks |-> chunks1 \o sub_chunks(split.chunks, start1),
                  current_chunk |-> <<>>,
                  current_tokens |-> tokens1,
                  start_index |-> start1 + Len(join(split.chunks))]
        ELSE IF st.current_tokens + sentence_tokens <= max_tokens
        THEN [st EXCEPT !.current_chunk = Append(@, sentence),
                        !.current_tokens = @ + sentence_tokens]
        ELSE [raised |-> FALSE,
              chunks |-> IF st.current_chunk # <<>> THEN flushed ELSE st.chunks,
              current_chunk |-> <<sentence>>,
              current_tokens |-> sentence_tokens,
              start_index |-> IF st.current_chunk # <<>>
                              THEN st.start_index + Len(chunk_content)
                              ELSE st.start_index]

RECURSIVE sem_loop(_, _, _)
sem_loop(st, sentences, max_tokens) ==
    IF sentences = <<>> \/ st.raised THEN st
    ELSE sem_loop(sem_step(st, Head(sentences), max_tokens), Tail(sentences), max_tokens)

\* ChunkProcessor._add_overlap
_add_overlap(chunks, overlap_tokens) ==
    IF Len(chunks) <= 1 THEN chunks
    ELSE [i \in 1..Len(chunks) |->
            IF i = 1 THEN chunks[1]
            ELSE LET prev_chunk == chunks[i - 1]
                     overlap_start == Max2(0, Len(prev_chunk.content)
                                               - overlap_tokens * CHARS_PER_TOKEN)
                     overlap_content == slice(prev_chunk.content, overlap_start,
                                              Len(prev_chunk.content))
                 IN  TextChunk(overlap_content \o chunks[i].content,
                               prev_chunk.start_index + overlap_start,
                               chunks[i].end_index)]

\* ChunkProcessor._semantic_chunking
_semantic_chunking(s, cfg) ==
    LET st == sem_loop([raised |-> FALSE, chunks |-> <<>>, current_chunk |-> <<>>,
                        current_tokens |-> 0, start_index |-> 0],
                       _split_into_sentences(s), cfg.max_tokens)
        chunk_content == join(st.current_chunk)
        chunks1 == IF st.current_chunk # <<>>
                   THEN Append(st.chunks,
                               TextChunk(chunk_content, st.start_index,
                                         st.start_index + Len(chunk_content)))
                   ELSE st.chunks
    IN  IF st.raised THEN [raised |-> TRUE, chunks |-> <<>>]
        ELSE [raised |-> FALSE,
              chunks |-> IF cfg.overlap_tokens > 0
                         THEN _add_overlap(chunks1, cfg.overlap_tokens)
                         ELSE chunks1]

\* ChunkProcessor._simple_chunking, from current_position on
RECURSIVE simple_loop(_, _, _, _)
simple_loop(s, cfg, chunks, current_position) ==
    IF ~ (current_position < Len(s)) THEN chunks
    ELSE LET remaining_text == slice(s, current_position, Len(s))
             chunk_end0 == Min2(current_position + cfg.max_tokens * CHARS_PER_TOKEN,
                                Len(s))
             sentence_end == _find_sentence_end(s, chunk_end0)
             chunk_end == IF /\ cfg.respect_sentence_boundaries
                             /\ sentence_end > current_position
                                               + cfg.min_tokens * CHARS_PER_TOKEN
                          THEN sentence_end ELSE chunk_end0
         IN  IF count_tokens(remaining_text) <= cfg.max_tokens
             THEN Append(chunks, TextChunk(remaining_text, current_position, Len(s)))
             ELSE simple_loop(s, cfg,
                              Append(chunks,
                                     TextChunk(slice(s, current_position, chunk_end),
                                               current_position, chunk_end)),
                              chunk_end)

_simple_chunking(s, cfg) == simple_loop(s, cfg, <<>>, 0)

\* ChunkProcessor.chunk_text
chunk_text(s, cfg) ==
    IF cfg.semantic_chunking THEN _semantic_chunking(s, cfg)
    ELSE [raised |-> FALSE, chunks |-> _simple_chunking(s, cfg)]

\* ChunkConfig(): the defaults, scaled to the texts of the model
DefaultChunkConfig ==
    [max_tokens |-> MaxMaxTokens, min_tokens |-> 1, overlap_tokens |-> 1,
     respect_sentence_boundaries |-> TRUE, semantic_chunking |-> TRUE]

\* the processor of a run that does not use it
CPIdle ==
    /\ text = <<>>
    /\ config = DefaultChunkConfig
    /\ cp_ret = [op |-> "init"]

(***************************************************************************)
(* LLMServiceManager                                                       *)
(***************************************************************************)
\* LLMServiceManager.services after add_service("openai-gpt35", ...) and
\* add_service("anthropic-haiku", ...): each service with its
\* config.model.value
services ==
    [name \in {"openai-gpt35", "anthropic-haiku"} |->
        [model |-> IF name = "openai-gpt35" THEN "gpt-3.5-turbo"
                   ELSE "claude-3-haiku"]]

\* LLMServiceManager.default_service: the first service added
default_service == "openai-gpt35"

\* LLMServiceManager.add_service with the default moved by every call
add_service_AlwaysDefault(mgr, name, service, is_default) ==
    [services |-> [k \in DOMAIN mgr.services \cup {name} |->
                      IF k = name THEN service ELSE mgr.services[k]],
     default_service |-> name]

\* LLMServiceManager.add_service on a manager mgr
add_service(mgr, name, service, is_default) ==
    [services |-> [k \in DOMAIN mgr.services \cup {name} |->
                      IF k = name THEN service ELSE mgr.services[k]],
     default_service |-> IF is_default \/ mgr.default_service = None
                         THEN name ELSE mgr.default_service]

\* LLMServiceManager.get_service on a manager mgr
get_service_in(mgr, name) ==
    LET n == IF name = None THEN mgr.default_service ELSE name
    IN  IF n \notin DOMAIN mgr.services
        THEN [raised |-> TRUE, error |-> "ValueError"]
        ELSE [raised |-> FALSE, name |-> n, service |-> mgr.services[n]]

\* LLMServiceManager.get_service on the manager of the analysis service
get_service(name) ==
    LET n == IF name = None THEN default_service ELSE name
    IN  IF n \notin DOMAIN services THEN [raised |-> TRUE, error |-> "ValueError"]
        ELSE [raised |-> FALSE, name |-> n, model |-> services[n].model]

\* the record of one LLMServiceManager.chat call: the service it went to and
\* the prompt it carried
chat_call(service_name, purpose) ==
    [service |-> get_service(service_name).name, purpose |-> purpose]

\* the records of chat calls with what came back: the tokens_used and cost of
\* the LLMResponse when the call returned one, nothing when it raised
answered(calls, outcome) ==
    [j \in 1..Len(calls) |->
        calls[j] @@ IF outcome.raised
                    THEN [completed |-> FALSE, tokens_used |-> 0, cost |-> 0]
                    ELSE [completed |-> TRUE, tokens_used |-> outcome.tokens_used,
                          cost |-> outcome.cost]]

(***************************************************************************)
(* LLM responses and their parsing                                         *)
(***************************************************************************)
\* LLMResponse.content is given by what json.loads makes of it: a JSON
\* document stands as the Python value it parses to, a text that is no JSON
\* document as its lines
JsonDocument(value) == [form |-> "json", value |-> value]
PlainText(lines)    == [form |-> "text", lines |-> lines]

\* Python values json.loads can return
PyDict(items) == [type |-> "dict", items |-> items]
PyList == [type |-> "list"]

\* json.loads: raises JSONDecodeError on a text that is no JSON document
json_loads(content) ==
    IF content.form = "json" THEN [raised |-> FALSE, value |-> content.value]
    ELSE [raised |-> TRUE, error |-> "JSONDecodeError"]

\* dict.get(key, default)
dict_get(d, key, default) == IF key \in DOMAIN d THEN d[key] ELSE default

\* a stripped line of a plain-text response.  keyword is the first section
\* word the parser finds in the line, in the order it tests them (summary,
\* key, category, tag), or None; dash says the line starts with '-'; body is
\* line[1:].strip() for a dash line and the whole line otherwise
Line(keyword, dash, body) ==
    [blank |-> FALSE, keyword |-> keyword, dash |-> dash, body |-> body]
BlankLine == [blank |-> TRUE]

EmptyResult ==
    [summary |-> "", key_points |-> <<>>, categories |-> <<>>, tags |-> <<>>,
     knowledge_entries |-> <<>>]

\* the section a keyword line switches to
section_of(keyword) ==
    CASE keyword = "summary"  -> "summary"
      [] keyword = "key"      -> "key_points"
      [] keyword = "category" -> "categories"
      [] keyword = "tag"      -> "tags"

\* one iteration of the loop of ContentAnalyzer._parse_fallback_response
fallback_step(st, line) ==
    IF line.blank THEN st
    ELSE IF line.keyword # None
         THEN [st EXCEPT !.current_section = section_of(line.keyword)]
    ELSE IF st.current_section # None /\ line.dash
         THEN IF st.current_section \in {"key_points", "categories", "tags"}
              THEN [st EXCEPT !.result[st.current_section] = Append(@, line.body)]
              ELSE st
    ELSE IF st.current_section = "summary" /\ st.result.summary = ""
         THEN [st EXCEPT !.result.summary = line.body]
    ELSE st

RECURSIVE fallback_loop(_, _)
fallback_loop(st, lines) ==
    IF lines = <<>> THEN st
    ELSE fallback_loop(fallback_step(st, Head(lines)), Tail(lines))

\* ContentAnalyzer._parse_fallback_response
_parse_fallback_response(lines) ==
    fallback_loop([result |-> EmptyResult, current_section |-> None], lines).result

(***************************************************************************)
(* ContentAnalyzer                                                         *)
(***************************************************************************)
MaxTokensPerChunk == 2   \* AnalysisConfig.max_tokens_per_chunk, scaled to the texts
MaxImportance     == 5   \* importance levels run from 1 to 5

\* the AnalysisConfig AnalysisService builds its analyzer with
analysis_config ==
    [enable_chunking |-> TRUE, max_tokens_per_chunk |-> MaxTokensPerChunk,
     enable_caching |-> TRUE, cache_ttl |-> 3600,
     enable_knowledge_extraction |-> TRUE, max_knowledge_entries |-> 20]

\* ChunkConfig(max_tokens=self.config.max_tokens_per_chunk): the other
\* fields keep the defaults of the dataclass
analyzer_chunk_config ==
    [max_tokens |-> analysis_config.max_tokens_per_chunk, min_tokens |-> 100,
     overlap_tokens |-> 200, respect_sentence_boundaries |-> TRUE,
     semantic_chunking |-> TRUE]

\* TextPreprocessor.preprocess_subtitle(content, 'json') on a text of the
\* Alphabet: no such text is a JSON document, so json.loads raises and the
\* except branch returns the content as it came
preprocess_subtitle(subtitle_content) == subtitle_content

\* dict[key] = value
dict_set(d, key, value) ==
    [k \in DOMAIN d \cup {key} |-> IF k = key THEN value ELSE d[k]]

\* the concatenation of a list of lists
RECURSIVE extend_all(_)
extend_all(lists) ==
    IF lists = <<>> THEN <<>> ELSE Head(lists) \o extend_all(Tail(lists))

\* lst[:n]
take(lst, n) == SubSeq(lst, 1, Min2(n, Len(lst)))

\* str.lower() on the characters key points are written with
lower(s) == [i \in 1..Len(s) |-> IF s[i] = "K" THEN "k" ELSE s[i]]

\* ContentAnalyzer._get_cache_key: the md5 digest of "text:service", taken
\* as the pair it is computed from
_get_cache_key(chunk_content, service_name) ==
    <<chunk_content, IF service_name = None THEN "default" ELSE service_name>>

\* ContentAnalyzer._deduplicate_key_points, the loop from a given point on
RECURSIVE dedup_loop(_, _, _)
dedup_loop(key_points, unique_points, seen) ==
    IF key_points = <<>> THEN unique_points
    ELSE LET point == Head(key_points)
             key   == strip(lower(point))
         IN  IF key \notin seen /\ Len(key) > 10
             THEN dedup_loop(Tail(key_points), Append(unique_points, point),
                             seen \cup {key})
             ELSE dedup_loop(Tail(key_points), unique_points, seen)

_deduplicate_key_points(key_points) == dedup_loop(key_points, <<>>, {})

\* list.sort(key=importance, reverse=True): stable, highest importance first
RECURSIVE sort_by_importance(_, _)
sort_by_importance(entries, level) ==
    IF level < 1 THEN <<>>
    ELSE SelectSeq(entries, LAMBDA e : dict_get(e, "importance", 1) = level)
         \o sort_by_importance(entries, level - 1)

\* ContentAnalyzer._filter_knowledge_entries
_filter_knowledge_entries(entries) ==
    sort_by_importance(
        SelectSeq(entries, LAMBDA e : dict_get(e, "importance", 1) >= 3),
        MaxImportance)

\* ContentAnalyzer._merge_summaries; outcome is what the chat call does
_merge_summaries(summaries, outcome) ==
    IF Len(summaries) = 1
    THEN [raised |-> FALSE, value |-> summaries[1], calls |-> <<>>]
    ELSE LET calls == <<chat_call(None, "merge")>>
         IN  IF ~ outcome.raised
             THEN [raised |-> FALSE, value |-> outcome.content, calls |-> calls]
             \* except Exception: return summaries[0]
             ELSE IF summaries = <<>>
                  THEN [raised |-> TRUE, error |-> "IndexError", calls |-> calls]
                  ELSE [raised |-> FALSE, value |-> summaries[1], calls |-> calls]

\* the members of the sets all_categories / all_tags
all_members(results, field) ==
    UNION {{dict_get(results[i], field, <<>>)[j] :
               j \in 1..Len(dict_get(results[i], field, <<>>))} :
           i \in 1..Len(results)}

\* list(a_set)[:n]: the iteration order of a set of strings is not fixed
list_of_set(S, n) ==
    LET m == Min2(n, Cardinality(S))
    IN  {q \in [1..m -> S] : \A i, j \in 1..m : i # j => q[i] # q[j]}

\* ContentAnalyzer._merge_analysis_results without the return of a single
\* result as it is
_merge_analysis_results_NoShortcut(results, outcome, categories, tags) ==
         LET all_summaries ==
                 [i \in 1..Len(results) |-> dict_get(results[i], "summary", "")]
             all_key_points ==
                 extend_all([i \in 1..Len(results) |->
                                dict_get(results[i], "key_points", <<>>)])
             collected ==
                 extend_all([i \in 1..Len(results) |->
                                dict_get(results[i], "knowledge_entries", <<>>)])
             all_knowledge_entries ==
                 IF analysis_config.enable_knowledge_extraction
                 THEN _filter_knowledge_entries(collected) ELSE collected
             merged_summary == _merge_summaries(all_summaries, outcome)
             unique_key_points == _deduplicate_key_points(all_key_points)
         IN  IF merged_summary.raised THEN merged_summary
             ELSE [raised |-> FALSE, calls |-> merged_summary.calls,
                   value |->
                      [summary |-> merged_summary.value,
                       key_points |-> take(unique_key_points, 10),
                       categories |-> categories,
                       tags |-> tags,
                       knowledge_entries |->
                          take(all_knowledge_entries,
                               analysis_config.max_knowledge_entries)]]

\* ContentAnalyzer._merge_analysis_results; categories and tags are the
\* lists list(all_categories)[:5] and list(all_tags)[:15] came out as
_merge_analysis_results(results, outcome, categories, tags) ==
    IF Len(results) = 1
    THEN [raised |-> FALSE, value |-> results[1], calls |-> <<>>]
    ELSE LET all_summaries ==
                 [i \in 1..Len(results) |-> dict_get(results[i], "summary", "")]
             all_key_points ==
                 extend_all([i \in 1..Len(results) |->
                                dict_get(results[i], "key_points", <<>>)])
             collected ==
                 extend_all([i \in 1..Len(results) |->
                                dict_get(results[i], "knowledge_entries", <<>>)])
             all_knowledge_entries ==
                 IF analysis_config.enable_knowledge_extraction
                 THEN _filter_knowledge_entries(collected) ELSE collected
             merged_summary == _merge_summaries(all_summaries, outcome)
             unique_key_points == _deduplicate_key_points(all_key_points)
         IN  IF merged_summary.raised THEN merged_summary
             ELSE [raised |-> FALSE, calls |-> merged_summary.calls,
                   value |->
                      [summary |-> merged_summary.value,
                       key_points |-> take(unique_key_points, 10),
                       categories |-> categories,
                       tags |-> tags,
                       knowledge_entries |->
                          take(all_knowledge_entries,
                               analysis_config.max_knowledge_entries)]]

\* ContentAnalyzer._analyze_chunk on cache c with timestamps ts at clock t;
\* outcome is what the chat call does when it is made
_analyze_chunk(chunk_content, service_name, outcome, c, ts, t) ==
    LET cache_key == _get_cache_key(chunk_content, service_name)
        same == [cache |-> c, timestamps |-> ts]
    IN  IF analysis_config.enable_caching /\ cache_key \in DOMAIN c
        THEN [raised |-> FALSE, value |-> c[cache_key], calls |-> <<>>] @@ same
        ELSE IF get_service(service_name).raised
        THEN [raised |-> TRUE, error |-> "ValueError", calls |-> <<>>] @@ same
        ELSE LET calls == <<chat_call(service_name, "chunk")>>
             IN  IF outcome.raised
                 THEN [raised |-> TRUE, error |-> "LLMError", calls |-> calls] @@ same
                 ELSE LET parsed == json_loads(outcome.content)
                          result ==
                              IF parsed.raised
                              THEN PyDict(_parse_fallback_response(outcome.content.lines))
                              ELSE parsed.value
                      IN  \* result['tokens_used'] = ... on a value that is no dict
                          IF result.type # "dict"
                          THEN [raised |-> TRUE, error |-> "TypeError",
                                calls |-> calls] @@ same
                          ELSE LET full ==
                                       dict_set(dict_set(result.items, "tokens_used",
                                                         outcome.tokens_used),
                                                "cost", outcome.cost)
                               IN  [raised |-> FALSE, value |-> full, calls |-> calls,
                                    cache |->
                                       IF analysis_config.enable_caching
                                       THEN dict_set(c, cache_key, full) ELSE c,
                                    timestamps |->
                                       IF analysis_config.enable_caching
                                       THEN dict_set(ts, cache_key, t) ELSE ts]

\* ContentAnalyzer.cleanup_cache on cache c with timestamps ts at clock t
expired_keys(ts, t) == {k \in DOMAIN ts : t - ts[k] > analysis_config.cache_ttl}

cleanup_cache(c, ts, t) ==
    LET live == DOMAIN ts \ expired_keys(ts, t)
    IN  [cache |-> [k \in live |-> c[k]], timestamps |-> [k \in live |-> ts[k]]]

(***************************************************************************)
(* AnalysisService                                                         *)
(***************************************************************************)
MaxRequests == 2   \* requests begun in a run

\* the price table of TokenManager.estimate_cost, in micro-dollars per 1K tokens
model_costs ==
    [m \in {"gpt-3.5-turbo", "gpt-4", "gpt-4-turbo", "gpt-4o",
            "claude-3-haiku", "claude-3-sonnet", "claude-3-opus"} |->
        CASE m = "gpt-3.5-turbo"   -> 2000
          [] m = "gpt-4"           -> 60000
          [] m = "gpt-4-turbo"     -> 30000
          [] m = "gpt-4o"          -> 15000
          [] m = "claude-3-haiku"  -> 250
          [] m = "claude-3-sonnet" -> 3000
          [] m = "claude-3-opus"   -> 15000]

\* TokenManager.estimate_cost, in whole micro-dollars
estimate_cost(tokens, model) ==
    LET cost_per_1k == IF model \in DOMAIN model_costs THEN model_costs[model]
                       ELSE 10000
    IN  (tokens * cost_per_1k) \div 1000

\* the list get_model_recommendation scans, in its order, prices in
\* micro-dollars per 1K tokens
recommended_models ==
    << [model |-> "gpt-3.5-turbo",   cost_per_1k |-> 2000],
       [model |-> "claude-3-haiku",  cost_per_1k |-> 250],
       [model |-> "gpt-4o",          cost_per_1k |-> 15000],
       [model |-> "claude-3-sonnet", cost_per_1k |-> 3000],
       [model |-> "gpt-4-turbo",     cost_per_1k |-> 30000],
       [model |-> "gpt-4",           cost_per_1k |-> 60000],
       [model |-> "claude-3-opus",   cost_per_1k |-> 15000] >>

\* estimated_cost <= budget for (tokens / 1000) * cost_per_1k dollars and a
\* budget in micro-dollars
within_budget(tokens, cost_per_1k, budget) == tokens * cost_per_1k <= budget * 1000

\* TokenManager.get_model_recommendation; budget in micro-dollars
get_model_recommendation(tokens, budget) ==
    LET fits == {i \in 1..Len(recommended_models) :
                    within_budget(tokens, recommended_models[i].cost_per_1k, budget)}
    IN  IF fits # {}
        THEN recommended_models[CHOOSE i \in fits : \A j \in fits : i <= j].model
        ELSE "gpt-3.5-turbo"

\* AnalysisService._estimate_tokens: the arithmetic of SimpleTokenCounter.encode
_estimate_tokens(content) == encode(content)

\* the subtitle contents requests carry: an empty one, one sentence, two
\* sentences that do not fit one chunk
Contents == << <<>>, <<ZH, STOP>>, <<ZH, STOP, ZH, STOP>> >>

\* the videos of the database: video 1 has a subtitle, video 2 has none, and
\* there is no video 3
Videos == {1, 2}
VideoIds == {1, 2, 3}
get_latest_subtitle(video_id) ==
    IF video_id = 1 THEN [found |-> TRUE, content |-> Contents[3]]
    ELSE [found |-> FALSE]

\* key points as the characters they are written with
KP_LONG  == <<"K", "e", "y", " ", "p", "o", "i", "n", "t", " ", "1">>
KP_AGAIN == <<"k", "e", "y", " ", "p", "o", "i", "n", "t", " ", "1", " ">>
KP_SHORT == <<"s", "h", "o", "r", "t">>
KP_TEN   == <<"K", "e", "y", " ", "p", "o", "i", "n", "t", "s">>

\* what a chat call does: it returns an LLMResponse or raises
Respond(content, tokens_used, cost) ==
    [raised |-> FALSE, content |-> content, tokens_used |-> tokens_used,
     cost |-> cost]
Raises == [raised |-> TRUE]

\* the outcomes of the chat call of _analyze_chunk: a complete JSON object,
\* a JSON object with members missing, a JSON array, a text that is no JSON
\* document, a failure
ChunkOutcomes ==
    << Respond(JsonDocument(PyDict(
                  [summary |-> "A", key_points |-> <<KP_LONG, KP_SHORT>>,
                   categories |-> <<"tech">>, tags |-> <<"t1">>,
                   knowledge_entries |->
                      << [title |-> "k1", importance |-> 2],
                         [title |-> "k2", importance |-> 5] >>])),
               1100, 0),
       Respond(JsonDocument(PyDict(
                  [summary |-> "B", key_points |-> <<KP_AGAIN, KP_TEN>>,
                   categories |-> <<"edu">>,
                   knowledge_entries |-> << [title |-> "k3"] >>])),
               50, 600000),
       Respond(JsonDocument(PyList), 50, 0),
       Respond(PlainText(<< Line("summary", FALSE, "Summary:"),
                            Line(None, FALSE, "C"),
                            BlankLine,
                            Line("key", FALSE, "Key points:"),
                            Line(None, TRUE, KP_SHORT) >>),
               50, 0),
       Raises >>

\* the outcomes of the chat call of _merge_summaries
MergeOutcomes == << Respond("M", 30, 0), Raises >>

ReqIdle == [pc |-> "idle"]

ANInit ==
    /\ an_cache = <<>>
    /\ cache_timestamps = <<>>
    /\ analysed = <<>>
    /\ llm_log = <<>>
    /\ req = ReqIdle
    /\ requests = 0
    /\ db = [v \in Videos |-> <<>>]
    /\ an_ret = [op |-> "init"]

\* the analyzer and the service of a run that does not use them
ANIdle == ANInit

\* no request threads, no provider call and an empty manager: the state of
\* these parts in a run that does not use them
THIdle == threads = <<>>
RTIdle == call = [pc |-> "idle"]
LMIdle == manager = [services |-> <<>>, default_service |-> None]
          /\ lm_ret = [op |-> "init"]

(***************************************************************************)
(* The clock                                                               *)
(***************************************************************************)
Tick ==
    /\ ticks < MaxTicks
    /\ \E d \in TickSteps : now' = now + d
    /\ ticks' = ticks + 1

(***************************************************************************)
(* Specification of the TokenManager alone                                 *)
(***************************************************************************)
\* (tokens, cost) pairs recorded or asked for
Usages    == {[tokens |-> 950, cost |-> 0], [tokens |-> 50, cost |-> 600000]}
AskTokens == {40, 50, 100}
AskCosts  == {0, 500000}
Models    == {"gpt-3.5-turbo", "gpt-4"}
TaskTypes == {"subtitle_analysis", "video_analysis"}

TMInit ==
    /\ usage_history = <<>>
    /\ model_stats = <<>>
    /\ task_stats = <<>>
    /\ tm_ret = [op |-> "init"]

QInit ==
    /\ now = StartTime
    /\ ticks = 0
    /\ TMInit
    /\ MCIdle
    /\ CPIdle
    /\ ANIdle
    /\ THIdle
    /\ RTIdle
    /\ LMIdle

QTick ==
    /\ Tick
    /\ tm_ret' = [op |-> "tick"]
    /\ UNCHANGED <<usage_history, model_stats, task_stats>>
    /\ UNCHANGED <<mcVars, cpVars, anVars, thVars, rtVars, lmVars>>

QRecordUsage ==
    /\ usage_count(task_stats) < MaxHistory
    /\ \E u \in Usages :
         /\ record_usage(u.tokens, u.cost, "gpt-3.5-turbo", "subtitle_analysis")
         /\ tm_ret' = [op |-> "record_usage", tokens |-> u.tokens, cost |-> u.cost]
    /\ UNCHANGED <<now, ticks>>
    /\ UNCHANGED <<mcVars, cpVars, anVars, thVars, rtVars, lmVars>>

QCheckLimit ==
    /\ \E tokens \in AskTokens, cost \in AskCosts, limit_type \in TokenLimitType :
         tm_ret' = [op |-> "check_limit", tokens |-> tokens, cost |-> cost,
                    limit_type |-> limit_type,
                    result |-> check_limit(tokens, cost, limit_type)]
    /\ UNCHANGED <<now, ticks, usage_history, model_stats, task_stats>>
    /\ UNCHANGED <<mcVars, cpVars, anVars, thVars, rtVars, lmVars>>

QGetUsageStats ==
    /\ \E limit_type \in TokenLimitType :
         tm_ret' = [op |-> "get_usage_stats", limit_type |-> limit_type,
                    stats |-> get_usage_stats(limit_type)]
    /\ UNCHANGED <<now, ticks, usage_history, model_stats, task_stats>>
    /\ UNCHANGED <<mcVars, cpVars, anVars, thVars, rtVars, lmVars>>

\* the token counts and budgets (micro-dollars) a recommendation is asked for
AskedTokens  == {1000, 4000}
AskedBudgets == {100, 1000, 2000, 100000}

QGetModelRecommendation ==
    /\ \E tokens \in AskedTokens, budget \in AskedBudgets :
         tm_ret' = [op |-> "get_model_recommendation", tokens |-> tokens,
                    budget |-> budget,
                    result |-> get_model_recommendation(tokens, budget)]
    /\ UNCHANGED <<now, ticks, usage_history, model_stats, task_stats>>
    /\ UNCHANGED <<mcVars, cpVars, anVars, thVars, rtVars, lmVars>>

QNext ==
    \/ QTick
    \/ QRecordUsage
    \/ QCheckLimit
    \/ QGetUsageStats
    \/ QGetModelRecommendation

SpecQuota == QInit /\ [][QNext]_vars

(***************************************************************************)
(* Specification of the MemoryCache alone                                  *)
(***************************************************************************)
CInit ==
    /\ now = StartTime
    /\ ticks = 0
    /\ TMInit
    /\ max_size \in 1..MaxSize
    /\ MCInit
    /\ CPIdle
    /\ ANIdle
    /\ THIdle
    /\ RTIdle
    /\ LMIdle

CTick ==
    /\ ticks < MaxTicks
    /\ \E d \in CacheTickSteps : now' = now + d
    /\ ticks' = ticks + 1
    /\ mc_ret' = [op |-> "tick"]
    /\ UNCHANGED <<max_size, cache, stats, last_cleanup, recency>>
    /\ UNCHANGED <<tmVars, cpVars, anVars, thVars, rtVars, lmVars>>

CSet ==
    /\ stats.sets < MaxSets
    /\ \E key \in Keys, arg \in SetArgs :
         LET r == set_result(cache, stats, max_size, key, arg.value, arg.ttl, now)
         IN  /\ cache' = r.cache
             /\ stats' = r.stats
             /\ recency' = touch(recency, r.cache, key, TRUE)
             /\ mc_ret' = [op |-> "set", key |-> key, value |-> arg.value,
                           evicted |-> r.evicted]
    /\ UNCHANGED <<now, ticks, max_size, last_cleanup>>
    /\ UNCHANGED <<tmVars, cpVars, anVars, thVars, rtVars, lmVars>>

CGet ==
    /\ stats.hits + stats.misses < MaxGets
    /\ \E key \in Keys :
         LET r == get_result(cache, stats, last_cleanup, key, now)
         IN  /\ cache' = r.cache
             /\ stats' = r.stats
             /\ last_cleanup' = r.last_cleanup
             /\ recency' = touch(recency, r.cache, key, r.value # None)
             /\ mc_ret' = [op |-> "get", key |-> key, value |-> r.value,
                           after |-> IF mc_ret.op \in {"set", "delete"} /\ mc_ret.key = key
                                     THEN mc_ret.op ELSE "other",
                           found |-> entry_state(cache, key, now)]
    /\ UNCHANGED <<now, ticks, max_size>>
    /\ UNCHANGED <<tmVars, cpVars, anVars, thVars, rtVars, lmVars>>

CDelete ==
    /\ stats.deletes < MaxDeletes
    /\ \E key \in Keys :
         LET r == delete_result(cache, stats, key)
         IN  /\ cache' = r.cache
             /\ stats' = r.stats
             /\ recency' = touch(recency, r.cache, key, FALSE)
             /\ mc_ret' = [op |-> "delete", key |-> key, value |-> r.value]
    /\ UNCHANGED <<now, ticks, max_size, last_cleanup>>
    /\ UNCHANGED <<tmVars, cpVars, anVars, thVars, rtVars, lmVars>>

CGetStats ==
    /\ mc_ret' = [op |-> "get_stats", value |-> get_stats(cache, stats, max_size)]
    /\ UNCHANGED <<now, ticks, max_size, cache, stats, last_cleanup, recency>>
    /\ UNCHANGED <<tmVars, cpVars, anVars, thVars, rtVars, lmVars>>

CNext == CTick \/ CSet \/ CGet \/ CDelete \/ CGetStats

SpecCache == CInit /\ [][CNext]_vars

(***************************************************************************)
(* Specification of the ChunkProcessor alone                               *)
(***************************************************************************)
\* every text of at most n characters
RECURSIVE Texts(_)
Texts(n) ==
    IF n = 0 THEN {<<>>}
    ELSE Texts(n - 1) \cup {Append(t, ch) : t \in {u \in Texts(n - 1) : Len(u) = n - 1},
                                            ch \in Alphabet}

\* semantic mode reads max_tokens and overlap_tokens, the fallback mode
\* max_tokens, min_tokens and respect_sentence_boundaries; min_tokens and
\* respect_sentence_boundaries keep their default in semantic mode
ChunkConfigs ==
    {[DefaultChunkConfig EXCEPT !.max_tokens = T, !.overlap_tokens = o] :
        T \in 1..MaxMaxTokens, o \in {0, 1}}
    \cup
    {[DefaultChunkConfig EXCEPT !.semantic_chunking = FALSE, !.max_tokens = T,
                                !.overlap_tokens = o,
                                !.min_tokens = m, !.respect_sentence_boundaries = r] :
        T \in 1..MaxMaxTokens, o \in {0, 1}, m \in {0, 1}, r \in BOOLEAN}

KInit ==
    /\ now = StartTime
    /\ ticks = 0
    /\ TMInit
    /\ MCIdle
    /\ text \in Texts(MaxLen)
    /\ config \in ChunkConfigs
    /\ cp_ret = [op |-> "init"]
    /\ ANIdle
    /\ THIdle
    /\ RTIdle
    /\ LMIdle

KChunkText ==
    /\ cp_ret.op = "init"
    /\ cp_ret' = [op |-> "chunk_text",
                  raised |-> chunk_text(text, config).raised,
                  chunks |-> chunk_text(text, config).chunks]
    /\ UNCHANGED <<now, ticks, text, config>>
    /\ UNCHANGED <<tmVars, mcVars, anVars, thVars, rtVars, lmVars>>

KNext == KChunkText

SpecChunk == KInit /\ [][KNext]_vars

(***************************************************************************)
(* Specification of the fallback chunking loop, iteration by iteration     *)
(***************************************************************************)
\* a max_tokens whose tentative cut lies more than LOOK_BACK characters into
\* a text
LongMaxTokens == (LOOK_BACK + 4) \div CHARS_PER_TOKEN

\* n copies of a character
run_of(ch, n) == [i \in 1..n |-> ch]

\* texts whose only terminator lies more than LOOK_BACK characters before
\* their end
LongTexts ==
    {<<ZH, STOP>> \o run_of(ZH, LOOK_BACK + 2),
     run_of(ZH, 3) \o <<NL>> \o run_of(LATIN, LOOK_BACK + 3)}

\* the configurations of the fallback mode: max_tokens >= 1, min_tokens >= 0
FallbackConfigs ==
    {[DefaultChunkConfig EXCEPT !.semantic_chunking = FALSE, !.max_tokens = T,
                                !.overlap_tokens = 0,
                                !.min_tokens = m, !.respect_sentence_boundaries = r] :
        T \in (1..MaxMaxTokens) \cup {LongMaxTokens}, m \in {0, 1}, r \in BOOLEAN}

\* one iteration of the while loop of ChunkProcessor._simple_chunking with
\* the cursor at current_position: the chunk it appends, whether it leaves
\* the loop, the cursor after it, and the cut it computed before looking for
\* a sentence end
simple_iteration(s, cfg, current_position) ==
    LET remaining_text == slice(s, current_position, Len(s))
        tentative == Min2(current_position + cfg.max_tokens * CHARS_PER_TOKEN,
                          Len(s))
        sentence_end == _find_sentence_end(s, tentative)
        chunk_end == IF /\ cfg.respect_sentence_boundaries
                        /\ sentence_end > current_position
                                          + cfg.min_tokens * CHARS_PER_TOKEN
                     THEN sentence_end ELSE tentative
    IN  IF count_tokens(remaining_text) <= cfg.max_tokens
        THEN [break |-> TRUE, tentative |-> Len(s),
              chunk |-> TextChunk(remaining_text, current_position, Len(s)),
              current_position |-> current_position]
        ELSE [break |-> FALSE, tentative |-> tentative,
              chunk |-> TextChunk(slice(s, current_position, chunk_end),
                                  current_position, chunk_end),
              current_position |-> chunk_end]

FInit ==
    /\ now = StartTime
    /\ ticks = 0
    /\ TMInit
    /\ MCIdle
    /\ text \in Texts(MaxLen) \cup LongTexts
    /\ config \in FallbackConfigs
    /\ cp_ret = [op |-> "init"]
    /\ ANIdle
    /\ THIdle
    /\ RTIdle
    /\ LMIdle

\* _simple_chunking is entered: chunks = [], current_position = 0
FEnter ==
    /\ cp_ret.op = "init"
    /\ cp_ret' = [op |-> "_simple_chunking", pc |-> "while", chunks |-> <<>>,
                  current_position |-> 0, tentative |-> 0, iterations |-> 0]
    /\ UNCHANGED <<now, ticks, text, config>>
    /\ UNCHANGED <<tmVars, mcVars, anVars, thVars, rtVars, lmVars>>

\* the loop condition holds: one iteration
FIteration ==
    /\ cp_ret.op = "_simple_chunking"
    /\ cp_ret.pc = "while"
    /\ cp_ret.current_position < Len(text)
    /\ \E it \in {simple_iteration(text, config, cp_ret.current_position)} :
         cp_ret' = [op |-> "_simple_chunking",
                    pc |-> IF it.break THEN "return" ELSE "while",
                    chunks |-> Append(cp_ret.chunks, it.chunk),
                    current_position |-> it.current_position,
                    tentative |-> it.tentative,
                    iterations |-> cp_ret.iterations + 1]
    /\ UNCHANGED <<now, ticks, text, config>>
    /\ UNCHANGED <<tmVars, mcVars, anVars, thVars, rtVars, lmVars>>

\* the loop condition fails: return chunks
FLeave ==
    /\ cp_ret.op = "_simple_chunking"
    /\ cp_ret.pc = "while"
    /\ ~ (cp_ret.current_position < Len(text))
    /\ cp_ret' = [cp_ret EXCEPT !.pc = "return"]
    /\ UNCHANGED <<now, ticks, text, config>>
    /\ UNCHANGED <<tmVars, mcVars, anVars, thVars, rtVars, lmVars>>

FNext == FEnter \/ FIteration \/ FLeave

\* the loop waits for nothing: a step that can be taken is taken
SpecFallback == FInit /\ [][FNext]_vars /\ WF_vars(FNext)

(***************************************************************************)
(* Specification of ChunkProcessor.optimize_chunks on given chunk lists    *)
(***************************************************************************)
MaxChunks    == 3   \* longest chunk list handed to optimize_chunks
MaxPiece     == 2   \* longest chunk content in such a list
MaxMinTokens == 3   \* largest ChunkConfig.min_tokens tried

\* the body of the for loop of optimize_chunks that drops every short chunk
optimize_step_DropShort(optimized, chunk, cfg) ==
    IF count_tokens(chunk.content) < cfg.min_tokens
    THEN optimized
    ELSE Append(optimized, chunk)

\* the body of the for loop of ChunkProcessor.optimize_chunks
optimize_step(optimized, chunk, cfg) ==
    IF count_tokens(chunk.content) < cfg.min_tokens
    THEN IF optimized # <<>>
         THEN [optimized EXCEPT ![Len(optimized)] =
                  [@ EXCEPT !.content = @ \o chunk.content,
                            !.end_index = chunk.end_index]]
         ELSE optimized
    ELSE Append(optimized, chunk)

RECURSIVE optimize_loop(_, _, _)
optimize_loop(chunks, cfg, optimized) ==
    IF chunks = <<>> THEN optimized
    ELSE optimize_loop(Tail(chunks), cfg, optimize_step(optimized, Head(chunks), cfg))

\* ChunkProcessor.optimize_chunks
optimize_chunks(chunks, cfg) == optimize_loop(chunks, cfg, <<>>)

\* the chunks that follow one another in a source made of the given contents
chunks_of(contents) ==
    [i \in 1..Len(contents) |->
        TextChunk(contents[i],
                  Len(join(SubSeq(contents, 1, i - 1))),
                  Len(join(SubSeq(contents, 1, i))))]

\* the contents of the chunks of a list handed to optimize_chunks
Pieces == Texts(MaxPiece)

OptimizeConfigs ==
    {[DefaultChunkConfig EXCEPT !.min_tokens = m] : m \in 0..MaxMinTokens}

OInit ==
    /\ now = StartTime
    /\ ticks = 0
    /\ TMInit
    /\ MCIdle
    /\ text = <<>>
    /\ config \in OptimizeConfigs
    /\ cp_ret = [op |-> "init"]
    /\ ANIdle
    /\ THIdle
    /\ RTIdle
    /\ LMIdle

OOptimizeChunks ==
    /\ cp_ret.op = "init"
    /\ \E n \in 0..MaxChunks :
       \E contents \in [1..n -> Pieces] :
       \E chunks \in {chunks_of(contents)} :
         cp_ret' = [op |-> "optimize_chunks", input |-> chunks,
                    chunks |-> optimize_chunks(chunks, config)]
    /\ UNCHANGED <<now, ticks, text, config>>
    /\ UNCHANGED <<tmVars, mcVars, anVars, thVars, rtVars, lmVars>>

ONext == OOptimizeChunks

SpecOptimize == OInit /\ [][ONext]_vars

(***************************************************************************)
(* Specification of the AnalysisService with its ContentAnalyzer           *)
(***************************************************************************)
SInit ==
    /\ now = StartTime
    /\ ticks = 0
    /\ TMInit
    /\ MCIdle
    /\ CPIdle
    /\ ANInit
    /\ THIdle
    /\ RTIdle
    /\ LMIdle

\* the clock of this specification advances between requests, past the
\* cache_ttl of the analyzer or by a day: a request is taken to run within
\* one reading of the clock
ServiceTickSteps == {3601, 86400}

STick ==
    /\ req.pc = "idle"
    /\ ticks < MaxTicks
    /\ \E d \in ServiceTickSteps : now' = now + d
    /\ ticks' = ticks + 1
    /\ an_ret' = [op |-> "tick"]
    /\ UNCHANGED <<an_cache, cache_timestamps, analysed, llm_log, req, requests, db>>
    /\ UNCHANGED <<tmVars, mcVars, cpVars, thVars, rtVars, lmVars>>

\* ContentAnalyzer.analyze_subtitle from its entry to the first chat call:
\* preprocessing and chunking
begin_analysis(entry, video_id, content, service_name) ==
    \E chunked \in
          {IF analysis_config.enable_chunking
           THEN chunk_text(preprocess_subtitle(content), analyzer_chunk_config)
           ELSE [raised |-> FALSE,
                 chunks |-> <<[content |-> preprocess_subtitle(content)]>>]} :
        IF chunked.raised
        THEN /\ req' = ReqIdle
             /\ an_ret' = [op |-> entry, content |-> content, done |-> TRUE,
                           raised |-> TRUE, error |-> "ValueError"]
        ELSE /\ req' = [pc |-> IF chunked.chunks = <<>> THEN "merge" ELSE "chunks",
                        entry |-> entry, video_id |-> video_id,
                        content |-> content, service_name |-> service_name,
                        start_time |-> now, chunks |-> chunked.chunks,
                        analysis_results |-> <<>>,
                        total_tokens |-> 0, total_cost |-> 0]
             /\ an_ret' = [op |-> entry, content |-> content, done |-> FALSE,
                           raised |-> FALSE]

\* AnalysisService.analyze_subtitle_content up to the first chat call
SAnalyzeSubtitleContent ==
    /\ req.pc = "idle"
    /\ requests < MaxRequests
    /\ \E n \in 1..Len(Contents) :
         LET content == Contents[n]
             estimated_tokens == _estimate_tokens(content)
             estimated_cost == estimate_cost(estimated_tokens, "gpt-3.5-turbo")
         IN  IF ~ check_limit(estimated_tokens, estimated_cost, DAILY)
             THEN /\ req' = ReqIdle
                  /\ an_ret' = [op |-> "analyze_subtitle_content",
                                content |-> content, done |-> TRUE,
                                raised |-> TRUE, error |-> "ValueError"]
             ELSE begin_analysis("analyze_subtitle_content", 0, content,
                                 default_service)
    /\ requests' = requests + 1
    /\ llm_log' = <<>>
    /\ UNCHANGED <<an_cache, cache_timestamps, analysed, db, now, ticks>>
    /\ UNCHANGED <<tmVars, mcVars, cpVars, thVars, rtVars, lmVars>>

\* AnalysisService._convert_to_analysis_result
_convert_to_analysis_result(analysis) ==
    [summary |-> analysis.summary, key_points |-> analysis.key_points,
     categories |-> analysis.categories, tags |-> analysis.tags,
     knowledge_entries |-> <<>>, total_tokens |-> 0, total_cost |-> 0,
     analysis_time |-> analysis.analysis_time,
     model_used |-> analysis.model_used, chunk_count |-> 0]

\* AnalysisService.analyze_video up to the first chat call
SAnalyzeVideo ==
    /\ req.pc = "idle"
    /\ requests < MaxRequests
    /\ \E video_id \in VideoIds, force_reanalysis \in BOOLEAN :
         LET subtitle == get_latest_subtitle(video_id)
             failed == [op |-> "analyze_video", video_id |-> video_id,
                        done |-> TRUE, raised |-> TRUE, error |-> "ValueError"]
         IN  IF video_id \notin Videos
             THEN req' = ReqIdle /\ an_ret' = failed
             ELSE IF ~ force_reanalysis /\ db[video_id] # <<>>
             THEN /\ req' = ReqIdle
                  /\ an_ret' = [op |-> "analyze_video", video_id |-> video_id,
                                done |-> TRUE, raised |-> FALSE,
                                result |-> _convert_to_analysis_result(
                                              db[video_id][Len(db[video_id])])]
             ELSE IF ~ subtitle.found
             THEN req' = ReqIdle /\ an_ret' = failed
             ELSE begin_analysis("analyze_video", video_id, subtitle.content,
                                 default_service)
    /\ requests' = requests + 1
    /\ llm_log' = <<>>
    /\ UNCHANGED <<an_cache, cache_timestamps, analysed, db, now, ticks>>
    /\ UNCHANGED <<tmVars, mcVars, cpVars, thVars, rtVars, lmVars>>

\* the service_name of a request: none, the name of a registered service, or
\* a name no service is registered under
RequestedServices == {None, "anthropic-haiku", "default"}

\* ContentAnalyzer.analyze_subtitle called on the analyzer itself
AAnalyzeSubtitle ==
    /\ req.pc = "idle"
    /\ requests < MaxRequests
    /\ \E n \in 1..Len(Contents), service_name \in RequestedServices :
         begin_analysis("analyze_subtitle", 0, Contents[n], service_name)
    /\ requests' = requests + 1
    /\ llm_log' = <<>>
    /\ UNCHANGED <<an_cache, cache_timestamps, analysed, db, now, ticks>>
    /\ UNCHANGED <<tmVars, mcVars, cpVars, thVars, rtVars, lmVars>>

\* one iteration of the chunk loop of analyze_subtitle: _analyze_chunk on the
\* next chunk, its chat call answered
AnalyzeChunk ==
    /\ req.pc = "chunks"
    /\ \E o \in 1..Len(ChunkOutcomes) :
       \E i \in {Len(req.analysis_results) + 1} :
       \E r \in {_analyze_chunk(req.chunks[i].content, req.service_name,
                                ChunkOutcomes[o], an_cache, cache_timestamps, now)} :
       \E step \in {IF r.calls = <<>>
                    THEN [op |-> "_analyze_chunk", chunk |-> i, called |-> FALSE]
                    ELSE [op |-> "_analyze_chunk", chunk |-> i, called |-> TRUE,
                          outcome |-> ChunkOutcomes[o]]} :
         /\ llm_log' = llm_log \o answered(r.calls, ChunkOutcomes[o])
         /\ an_cache' = r.cache
         /\ cache_timestamps' = r.timestamps
         /\ analysed' = IF r.calls # <<>> /\ ~ r.raised
                        THEN dict_set(analysed,
                                      <<req.chunks[i].content, req.service_name>>,
                                      r.value)
                        ELSE analysed
         /\ IF r.raised
            THEN /\ req' = ReqIdle
                 /\ an_ret' = step @@ [done |-> TRUE, raised |-> TRUE,
                                       error |-> r.error]
            ELSE /\ req' = [req EXCEPT
                              !.analysis_results = Append(@, r.value),
                              !.total_tokens = @ + dict_get(r.value, "tokens_used", 0),
                              !.total_cost = @ + dict_get(r.value, "cost", 0),
                              !.pc = IF i = Len(req.chunks) THEN "merge"
                                     ELSE "chunks"]
                 /\ an_ret' = step @@ [done |-> FALSE, raised |-> FALSE,
                                       value |-> r.value]
    /\ UNCHANGED <<requests, db, now, ticks>>
    /\ UNCHANGED <<tmVars, mcVars, cpVars, thVars, rtVars, lmVars>>

\* the AnalysisResult analyze_subtitle builds from the merged result
AnalysisResult(merged_result, request, t) ==
    [summary |-> dict_get(merged_result, "summary", ""),
     key_points |-> dict_get(merged_result, "key_points", <<>>),
     categories |-> dict_get(merged_result, "categories", <<>>),
     tags |-> dict_get(merged_result, "tags", <<>>),
     knowledge_entries |-> dict_get(merged_result, "knowledge_entries", <<>>),
     total_tokens |-> request.total_tokens,
     total_cost |-> request.total_cost,
     analysis_time |-> t - request.start_time,
     model_used |-> get_service(request.service_name).model,
     chunk_count |-> Len(request.chunks)]

\* the Analysis row ContentAnalyzer.save_analysis_result stores
Analysis(result) ==
    [summary |-> result.summary, key_points |-> result.key_points,
     categories |-> result.categories, tags |-> result.tags,
     analysis_time |-> result.analysis_time, model_used |-> result.model_used]

\* the end of a request: _merge_analysis_results with its chat call answered,
\* the AnalysisResult, and what the entry point does with it (record_usage,
\* save_analysis_result)
AnalyzeMerge ==
    /\ req.pc = "merge"
    /\ \E o \in 1..Len(MergeOutcomes),
          categories \in list_of_set(all_members(req.analysis_results, "categories"), 5),
          tags \in list_of_set(all_members(req.analysis_results, "tags"), 15) :
       \E m \in {_merge_analysis_results(req.analysis_results, MergeOutcomes[o],
                                         categories, tags)} :
       \E step \in {[op |-> "_merge_analysis_results", done |-> TRUE,
                     entry |-> req.entry,
                     merge_called |-> m.calls # <<>>,
                     merge_raised |-> m.calls # <<>> /\ MergeOutcomes[o].raised]} :
         /\ llm_log' = llm_log \o answered(m.calls, MergeOutcomes[o])
         /\ req' = ReqIdle
         /\ IF m.raised
            THEN /\ an_ret' = step @@ [raised |-> TRUE, error |-> m.error]
                 /\ UNCHANGED <<db, tmVars>>
            \* model_used = self.llm_manager.get_service(service_name)...
            ELSE IF get_service(req.service_name).raised
            THEN /\ an_ret' = step @@ [raised |-> TRUE, error |-> "ValueError",
                                       merged |-> m.value]
                 /\ UNCHANGED <<db, tmVars>>
            ELSE \E result \in {AnalysisResult(m.value, req, now)} :
                   /\ an_ret' = step @@ [raised |-> FALSE, merged |-> m.value,
                                         result |-> result]
                   /\ IF req.entry = "analyze_subtitle"
                      THEN UNCHANGED tmVars
                      ELSE /\ record_usage(result.total_tokens, result.total_cost,
                                           result.model_used,
                                           IF req.entry = "analyze_video"
                                           THEN "video_analysis"
                                           ELSE "subtitle_analysis")
                           /\ tm_ret' = [op |-> "record_usage",
                                         tokens |-> result.total_tokens,
                                         cost |-> result.total_cost]
                   /\ IF req.entry = "analyze_video"
                      THEN db' = [db EXCEPT ![req.video_id] =
                                                Append(@, Analysis(result))]
                      ELSE UNCHANGED db
    /\ UNCHANGED <<an_cache, cache_timestamps, analysed, requests, now, ticks>>
    /\ UNCHANGED <<mcVars, cpVars, thVars, rtVars, lmVars>>

\* ContentAnalyzer.cleanup_cache, called when some entry has expired (a call
\* that finds none changes nothing)
ACleanupCache ==
    /\ expired_keys(cache_timestamps, now) # {}
    /\ LET cleaned == cleanup_cache(an_cache, cache_timestamps, now)
       IN  /\ an_cache' = cleaned.cache
           /\ cache_timestamps' = cleaned.timestamps
    /\ an_ret' = [op |-> "cleanup_cache"]
    /\ UNCHANGED <<analysed, llm_log, req, requests, db, now, ticks>>
    /\ UNCHANGED <<tmVars, mcVars, cpVars, thVars, rtVars, lmVars>>

SNext ==
    \/ STick
    \/ SAnalyzeSubtitleContent
    \/ SAnalyzeVideo
    \/ AAnalyzeSubtitle
    \/ AnalyzeChunk
    \/ AnalyzeMerge
    \/ ACleanupCache

SpecService == SInit /\ [][SNext]_vars

(***************************************************************************)
(* Requests on several threads                                             *)
(***************************************************************************)
\* The web application runs every request on a thread of its own, each with
\* its own event loop (api/analysis_routes.py), and TokenManager and
\* MemoryCache are process-wide objects without a lock.  A thread can be
\* switched wherever its code calls into further Python code: before
\* _cleanup_old_data and inside its list comprehension, before _evict_lru,
\* inside min() and before _delete_entry.  The steps below are the stretches
\* between these points; the clock stands still.
MaxThreads == 2          \* request threads
MaxCallsPerThread == 2   \* calls a thread makes

Threads == 1..MaxThreads

\* a thread between two calls: the calls it has made of each kind, and the
\* tokens and cost it has passed to record_usage
ThreadStart ==
    [pc |-> "idle", made |-> 0, n_record_usage |-> 0, n_set |-> 0, n_get |-> 0,
     tokens |-> 0, cost |-> 0,
     kept |-> <<>>, key |-> None, value |-> None, ttl |-> 0, lru_key |-> None]

\* the thread when its call returns: the locals of the call are gone
returned(th) ==
    [th EXCEPT !.pc = "idle", !.kept = <<>>, !.key = None, !.value = None,
               !.ttl = 0, !.lru_key = None]

TInit ==
    /\ now = StartTime
    /\ ticks = 0
    /\ TMInit
    /\ max_size \in 1..MaxSize
    /\ MCInit
    /\ CPIdle
    /\ ANIdle
    /\ threads = [t \in Threads |-> ThreadStart]
    /\ RTIdle
    /\ LMIdle

\* record_usage from its entry to the call of _cleanup_old_data: the append
\* and the two statistics
TRecordUsage(t) ==
    /\ threads[t].pc = "idle"
    /\ threads[t].made < MaxCallsPerThread
    /\ \E u \in Usages :
         /\ usage_history' =
               Append(usage_history,
                      [timestamp |-> now, tokens |-> u.tokens, cost |-> u.cost,
                       model |-> "gpt-3.5-turbo",
                       task_type |-> "subtitle_analysis"])
         /\ model_stats' = stats_add(model_stats, "gpt-3.5-turbo", u.tokens, u.cost)
         /\ task_stats' = stats_add(task_stats, "subtitle_analysis", u.tokens, u.cost)
         /\ threads' = [threads EXCEPT ![t].pc = "_cleanup_old_data",
                                        ![t].made = @ + 1,
                                        ![t].tokens = @ + u.tokens,
                                        ![t].cost = @ + u.cost]
    /\ UNCHANGED <<now, ticks, tm_ret>>
    /\ UNCHANGED <<mcVars, cpVars, anVars, rtVars, lmVars>>

\* _cleanup_old_data: the list comprehension builds the new list from the
\* history as it is now
TCleanupBuild(t) ==
    /\ threads[t].pc = "_cleanup_old_data"
    /\ threads' = [threads EXCEPT
                      ![t].kept = _cleanup_old_data(usage_history, now),
                      ![t].pc = "usage_history ="]
    /\ UNCHANGED <<now, ticks>>
    /\ UNCHANGED <<tmVars, mcVars, cpVars, anVars, rtVars, lmVars>>

\* _cleanup_old_data: the new list is bound to self.usage_history, and
\* record_usage returns
TCleanupAssign(t) ==
    /\ threads[t].pc = "usage_history ="
    /\ usage_history' = threads[t].kept
    /\ threads' = [threads EXCEPT ![t] =
                      [returned(threads[t]) EXCEPT !.n_record_usage = @ + 1]]
    /\ UNCHANGED <<now, ticks, model_stats, task_stats, tm_ret>>
    /\ UNCHANGED <<mcVars, cpVars, anVars, rtVars, lmVars>>

\* MemoryCache.set: the size check
TSet(t) ==
    /\ threads[t].pc = "idle"
    /\ threads[t].made < MaxCallsPerThread
    /\ \E key \in Keys, a \in SetArgs :
         threads' = [threads EXCEPT
                        ![t].made = @ + 1,
                        ![t].key = key, ![t].value = a.value, ![t].ttl = a.ttl,
                        ![t].pc = IF Len(cache) >= max_size
                                  THEN "_evict_lru" ELSE "cache[key] ="]
    /\ UNCHANGED <<now, ticks>>
    /\ UNCHANGED <<tmVars, mcVars, cpVars, anVars, rtVars, lmVars>>

\* _evict_lru: nothing to do on an empty cache, else lru_key = min(...)
TEvictPick(t) ==
    /\ threads[t].pc = "_evict_lru"
    /\ threads' = [threads EXCEPT ![t] =
                      IF cache = <<>>
                      THEN [threads[t] EXCEPT !.pc = "cache[key] ="]
                      ELSE [threads[t] EXCEPT
                              !.lru_key = cache[lru_index(cache)].key,
                              !.pc = "_delete_entry"]]
    /\ UNCHANGED <<now, ticks>>
    /\ UNCHANGED <<tmVars, mcVars, cpVars, anVars, rtVars, lmVars>>

\* _evict_lru: _delete_entry(lru_key), which deletes the key when it is
\* still there, and the evictions counter
TEvictDelete(t) ==
    /\ threads[t].pc = "_delete_entry"
    /\ \E d \in {delete_result(cache, stats, threads[t].lru_key)} :
         /\ cache' = d.cache
         /\ stats' = [d.stats EXCEPT !.evictions = @ + 1]
    /\ threads' = [threads EXCEPT ![t].pc = "cache[key] ="]
    /\ UNCHANGED <<now, ticks, max_size, last_cleanup, mc_ret, recency>>
    /\ UNCHANGED <<tmVars, cpVars, anVars, rtVars, lmVars>>

\* set: the entry goes into the dictionary, the sets counter, and set
\* returns
TSetInsert(t) ==
    /\ threads[t].pc = "cache[key] ="
    /\ cache' = dict_put(cache,
                         [key |-> threads[t].key,
                          value |-> _serialize(threads[t].value),
                          created_at |-> now,
                          ttl |-> IF threads[t].ttl = 0 THEN DEFAULT_TTL
                                  ELSE threads[t].ttl,
                          access_count |-> 0, last_access |-> 0])
    /\ stats' = [stats EXCEPT !.sets = @ + 1]
    /\ threads' = [threads EXCEPT ![t] =
                      [returned(threads[t]) EXCEPT !.n_set = @ + 1]]
    /\ UNCHANGED <<now, ticks, max_size, last_cleanup, mc_ret, recency>>
    /\ UNCHANGED <<tmVars, cpVars, anVars, rtVars, lmVars>>

\* MemoryCache.get: it reads the dictionary once (dict.get) and goes on with
\* the entry it found and the counters
TGet(t) ==
    /\ threads[t].pc = "idle"
    /\ threads[t].made < MaxCallsPerThread
    /\ \E key \in Keys :
       \E g \in {get_result(cache, stats, last_cleanup, key, now)} :
         /\ cache' = g.cache
         /\ stats' = g.stats
         /\ last_cleanup' = g.last_cleanup
    /\ threads' = [threads EXCEPT ![t] =
                      [returned(threads[t]) EXCEPT !.made = @ + 1,
                                                   !.n_get = @ + 1]]
    /\ UNCHANGED <<now, ticks, max_size, mc_ret, recency>>
    /\ UNCHANGED <<tmVars, cpVars, anVars, rtVars, lmVars>>

TNext ==
    \E t \in Threads :
        \/ TRecordUsage(t)
        \/ TCleanupBuild(t)
        \/ TCleanupAssign(t)
        \/ TSet(t)
        \/ TEvictPick(t)
        \/ TEvictDelete(t)
        \/ TSetInsert(t)
        \/ TGet(t)

SpecThreads == TInit /\ [][TNext]_vars

(***************************************************************************)
(* Provider chat calls under their retry policy                            *)
(***************************************************************************)
\* OpenAIService.chat, AnthropicService.chat and GLMService.chat carry the
\* same decorator: @retry(stop=stop_after_attempt(3),
\* wait=wait_exponential(multiplier=1, min=4, max=10)).  Without reraise the
\* decorator raises RetryError once it stops.
MaxChatCalls == 3        \* chat calls made in a run

STOP_AFTER_ATTEMPT == 3
WAIT_MULTIPLIER == 1
WAIT_MIN == 4
WAIT_MAX == 10

Providers == {"openai", "anthropic", "glm"}

\* what one attempt does: the body of chat returns an LLMResponse or raises
AttemptOutcomes ==
    << Respond("ok", 50, 0), Respond("ok", 1100, 600000), Raises >>

\* wait_exponential without the lower bound min
wait_exponential_NoFloor(attempt_number) ==
    Min2(WAIT_MULTIPLIER * 2 ^ (attempt_number - 1), WAIT_MAX)

\* wait_exponential: the seconds slept after attempt attempt_number failed
wait_exponential(attempt_number) ==
    Max2(Max2(0, WAIT_MIN),
         Min2(WAIT_MULTIPLIER * 2 ^ (attempt_number - 1), WAIT_MAX))

\* stop_after_attempt
stop_after_attempt(attempt_number) == attempt_number >= STOP_AFTER_ATTEMPT

\* no call made yet
CallStart ==
    [pc |-> "idle", made |-> 0, provider |-> None, attempt_number |-> 0,
     outcomes |-> <<>>, waits |-> <<>>, result |-> <<>>]

RInit ==
    /\ now = StartTime
    /\ ticks = 0
    /\ TMInit
    /\ MCIdle
    /\ CPIdle
    /\ ANIdle
    /\ THIdle
    /\ call = CallStart
    /\ LMIdle

\* a caller awaits service.chat(messages): the first attempt is due
RChat ==
    /\ call.pc = "idle"
    /\ call.made < MaxChatCalls
    /\ \E provider \in Providers :
         call' = [CallStart EXCEPT !.pc = "attempt", !.made = call.made + 1,
                                   !.provider = provider, !.attempt_number = 1]
    /\ UNCHANGED <<now, ticks>>
    /\ UNCHANGED <<tmVars, mcVars, cpVars, anVars, thVars, lmVars>>

\* one attempt: the body of chat runs.  Its response is returned to the
\* caller; its exception makes the decorator raise RetryError when it has
\* to stop, and sleep otherwise
RAttempt ==
    /\ call.pc = "attempt"
    /\ \E o \in 1..Len(AttemptOutcomes) :
       \E outcome \in {AttemptOutcomes[o]} :
         call' = IF ~ outcome.raised
                 THEN [call EXCEPT !.outcomes = Append(@, outcome),
                                   !.pc = "idle", !.result = <<outcome>>]
                 ELSE IF stop_after_attempt(call.attempt_number)
                 THEN [call EXCEPT !.outcomes = Append(@, outcome),
                                   !.pc = "idle",
                                   !.result = <<[raised |-> TRUE,
                                                 error |-> "RetryError"]>>]
                 ELSE [call EXCEPT !.outcomes = Append(@, outcome),
                                   !.pc = "sleep"]
    /\ UNCHANGED <<now, ticks>>
    /\ UNCHANGED <<tmVars, mcVars, cpVars, anVars, thVars, lmVars>>

\* the sleep between two attempts
RSleep ==
    /\ call.pc = "sleep"
    /\ \E seconds \in {wait_exponential(call.attempt_number)} :
         /\ now' = now + seconds
         /\ call' = [call EXCEPT !.waits = Append(@, seconds),
                                  !.attempt_number = @ + 1,
                                  !.pc = "attempt"]
    /\ UNCHANGED ticks
    /\ UNCHANGED <<tmVars, mcVars, cpVars, anVars, thVars, lmVars>>

RNext == RChat \/ RAttempt \/ RSleep

SpecRetry == RInit /\ [][RNext]_vars

(***************************************************************************)
(* The service registry                                                    *)
(***************************************************************************)
MaxAdds == 3             \* add_service calls made in a run

ServiceNames == {"openai-gpt35", "anthropic-haiku", "glm-4"}
ServiceObjects == {"service 1", "service 2"}

\* LLMServiceManager.__init__; lm_ret carries, next to the last call, the
\* add_service calls made so far
MInit ==
    /\ now = StartTime
    /\ ticks = 0
    /\ TMInit
    /\ MCIdle
    /\ CPIdle
    /\ ANIdle
    /\ THIdle
    /\ RTIdle
    /\ manager = [services |-> <<>>, default_service |-> None]
    /\ lm_ret = [op |-> "init", added |-> <<>>]

MAddService ==
    /\ Len(lm_ret.added) < MaxAdds
    /\ \E name \in ServiceNames, service \in ServiceObjects,
          is_default \in BOOLEAN :
         /\ manager' = add_service(manager, name, service, is_default)
         /\ lm_ret' = [op |-> "add_service",
                       added |-> Append(lm_ret.added,
                                        [name |-> name, service |-> service,
                                         is_default |-> is_default])]
    /\ UNCHANGED <<now, ticks>>
    /\ UNCHANGED <<tmVars, mcVars, cpVars, anVars, thVars, rtVars>>

MGetService ==
    /\ \E name \in ServiceNames \cup {None} :
         lm_ret' = [op |-> "get_service", name |-> name,
                    returned |-> get_service_in(manager, name),
                    added |-> lm_ret.added]
    /\ UNCHANGED <<now, ticks, manager>>
    /\ UNCHANGED <<tmVars, mcVars, cpVars, anVars, thVars, rtVars>>

MNext == MAddService \/ MGetService

SpecManager == MInit /\ [][MNext]_vars

(***************************************************************************)
(* C1                                                                      *)
(***************************************************************************)
\* usage of the current period of window W, stated on the ledger: the
\* records whose timestamp lies in [now - now mod reset_interval, now)
RECURSIVE SumOver(_, _, _)
SumOver(S, h, field) ==
    IF S = {} THEN 0
    ELSE LET i == CHOOSE j \in S : TRUE
         IN  (IF field = "tokens" THEN h[i].tokens ELSE h[i].cost)
             + SumOver(S \ {i}, h, field)

InPeriod(W) ==
    {i \in DOMAIN usage_history :
        /\ usage_history[i].timestamp >= now - (now % limits(W).reset_interval)
        /\ usage_history[i].timestamp < now}

used_tokens(W) == SumOver(InPeriod(W), usage_history, "tokens")
used_cost(W)   == SumOver(InPeriod(W), usage_history, "cost")

\* C1: check_limit(tokens, cost, W) returns false exactly when the usage of
\* W's current period plus the request exceeds the token ceiling or the cost
\* ceiling of W; a request that lands exactly on a ceiling is allowed.
C1_CheckLimit ==
    tm_ret.op = "check_limit" =>
        (tm_ret.result <=>
            ~ \/ used_tokens(tm_ret.limit_type) + tm_ret.tokens
                    > limits(tm_ret.limit_type).max_tokens
              \/ used_cost(tm_ret.limit_type) + tm_ret.cost
                    > limits(tm_ret.limit_type).max_cost)

\* the scenario of the claim: 950 of 1000 daily tokens used, check_limit(100, 0)
\* refused
C1_Witness ==
    /\ tm_ret.op = "check_limit"
    /\ tm_ret.limit_type = DAILY
    /\ used_tokens(DAILY) = 950
    /\ tm_ret.tokens = 100
    /\ tm_ret.cost = 0
    /\ tm_ret.result = FALSE

(***************************************************************************)
(* C3                                                                      *)
(***************************************************************************)
\* C3: a set of a new key into a cache that holds max_size entries removes
\* exactly one entry, the one set or read least recently among those present.
C3_EvictsLeastRecentlyAccessed ==
    [][(/\ mc_ret'.op = "set"
        /\ Len(cache) = max_size
        /\ mc_ret'.key \notin key_set(cache))
       => key_set(cache') = (key_set(cache) \ {Head(recency)}) \cup {mc_ret'.key}]_vars

(***************************************************************************)
(* C4                                                                      *)
(***************************************************************************)
\* C4: a get(k) issued right after set(k, v) returns v, whatever the cache
\* held before; a get(k) issued right after delete(k) returns None.
C4_SetThenGet ==
    [][mc_ret'.op = "get" =>
         /\ (mc_ret.op = "set" /\ mc_ret.key = mc_ret'.key)
               => mc_ret'.value = mc_ret.value
         /\ (mc_ret.op = "delete" /\ mc_ret.key = mc_ret'.key)
               => mc_ret'.value = None]_vars

\* a get right after a set that had to evict from a full cache
C4_Witness ==
    /\ mc_ret.op = "get"
    /\ mc_ret.after = "set"
    /\ mc_ret.value = "v2"
    /\ stats.evictions > 0
    /\ Len(cache) = max_size

(***************************************************************************)
(* C5                                                                      *)
(***************************************************************************)
\* C5: a get(k) made when more than ttl has elapsed since the set that
\* created k's entry returns None, removes the entry and counts a miss and no
\* hit, however often the entry was read before.
C5_ExpiredGet ==
    [][\A k \in Keys :
        (/\ mc_ret'.op = "get"
         /\ mc_ret'.key = k
         /\ k \in key_set(cache)
         /\ now - cache[index_of(cache, k)].created_at > cache[index_of(cache, k)].ttl)
        => /\ mc_ret'.value = None
           /\ k \notin key_set(cache')
           /\ stats'.misses = stats.misses + 1
           /\ stats'.hits = stats.hits]_vars

\* an entry that was read while live and then looked up after its ttl
C5_Witness ==
    /\ mc_ret.op = "get"
    /\ mc_ret.found.state = "expired"
    /\ mc_ret.found.reads > 0
    /\ mc_ret.value = None

(***************************************************************************)
(* C6                                                                      *)
(***************************************************************************)
\* the i-th chunk comes from force-splitting a sentence of more than
\* max_tokens tokens: without its overlap prefix it is one of the pieces of
\* such a sentence
ForceSplitPiece(i) ==
    /\ config.semantic_chunking
    /\ LET base == chunk_text(text, [config EXCEPT !.overlap_tokens = 0]).chunks[i].content
           sentences == _split_into_sentences(text)
       IN  \E k \in 1..Len(sentences) :
              /\ count_tokens(sentences[k]) > config.max_tokens
              /\ LET pieces == _split_long_sentence(sentences[k], config.max_tokens).chunks
                 IN  \E j \in 1..Len(pieces) : pieces[j] = base

\* C6: in either mode, with or without overlap, every chunk chunk_text
\* returns counts at most max_tokens tokens, unless it is a piece of a
\* force-split over-long sentence.
C6_ChunkWithinMaxTokens ==
    (cp_ret.op = "chunk_text" /\ ~ cp_ret.raised) =>
        \A i \in 1..Len(cp_ret.chunks) :
            \/ count_tokens(cp_ret.chunks[i].content) <= config.max_tokens
            \/ ForceSplitPiece(i)

(***************************************************************************)
(* C7                                                                      *)
(***************************************************************************)
\* C7: with overlap_tokens = 0 the contents of the chunks, concatenated in
\* order, are exactly the input text.
C7_ChunksReconstructText ==
    (cp_ret.op = "chunk_text" /\ ~ cp_ret.raised /\ config.overlap_tokens = 0) =>
        join([i \in 1..Len(cp_ret.chunks) |-> cp_ret.chunks[i].content]) = text

(***************************************************************************)
(* C2                                                                      *)
(***************************************************************************)
ServiceEntries == {"analyze_subtitle_content", "analyze_video"}

\* the quota check of a request with this content passes in every window
quota_allows(content) ==
    \A limit_type \in TokenLimitType :
        check_limit(_estimate_tokens(content),
                    estimate_cost(_estimate_tokens(content), "gpt-3.5-turbo"),
                    limit_type)

\* C2: a request of analyze_subtitle_content or analyze_video whose quota
\* check fails in the daily, weekly or monthly window issues no chat call
\* and records no usage.  (Clock and usage history do not change while a
\* request runs, so the check at a step of the request is the check at its
\* entry.)
C2_QuotaGateBeforeAnyCall ==
    [][(/\ req.pc \in {"chunks", "merge"}
        /\ req.entry \in ServiceEntries
        /\ (llm_log' # llm_log \/ usage_history' # usage_history))
       => quota_allows(req.content)]_vars

(***************************************************************************)
(* C8                                                                      *)
(***************************************************************************)
\* C8: merging a list of exactly one chunk result returns that result as it
\* is (nothing deduplicated, capped or filtered) and issues no chat call.
C8_SingleResultUnchanged ==
    [][(req.pc = "merge" /\ Len(req.analysis_results) = 1 /\ req' # req)
       => /\ an_ret'.op = "_merge_analysis_results"
          /\ ~ an_ret'.merge_raised
          /\ an_ret'.merged = req.analysis_results[1]
          /\ ~ an_ret'.merge_called
          /\ llm_log' = llm_log]_vars

\* a single result with a short key point and a knowledge entry of low
\* importance has been merged
C8_Witness ==
    /\ an_ret.op = "_merge_analysis_results"
    /\ ~ an_ret.raised
    /\ an_ret.result.chunk_count = 1
    /\ an_ret.result.key_points = <<KP_LONG, KP_SHORT>>
    /\ Len(an_ret.result.knowledge_entries) = 2

(***************************************************************************)
(* C9                                                                      *)
(***************************************************************************)
\* C9: whenever the chat call of the merge step raises, analyze_subtitle
\* still returns a result, and its summary is the summary of the first chunk.
C9_MergeFailureFallsBack ==
    [][(req.pc = "merge" /\ an_ret'.op = "_merge_analysis_results"
        /\ an_ret'.merge_raised)
       => /\ ~ an_ret'.raised
          /\ req.analysis_results # <<>>
          /\ an_ret'.result.summary =
                dict_get(req.analysis_results[1], "summary", "")]_vars

(***************************************************************************)
(* C10                                                                     *)
(***************************************************************************)
\* the response is not a JSON object: no JSON document at all, or a JSON
\* document of another kind
unparseable(content) ==
    content.form = "text" \/ content.value.type # "dict"

\* C10: for every response that is not a JSON object, _analyze_chunk does
\* not raise: it returns a chunk result that carries the tokens_used and the
\* cost of the response, and the request goes on.
C10_UnparseableResponseRecovered ==
    [][(/\ req.pc = "chunks"
        /\ an_ret'.op = "_analyze_chunk"
        /\ an_ret'.called
        /\ ~ an_ret'.outcome.raised
        /\ unparseable(an_ret'.outcome.content))
       => /\ ~ an_ret'.raised
          /\ dict_get(an_ret'.value, "tokens_used", None) = an_ret'.outcome.tokens_used
          /\ dict_get(an_ret'.value, "cost", None) = an_ret'.outcome.cost
          /\ req'.pc # "idle"]_vars

(***************************************************************************)
(* C11                                                                     *)
(***************************************************************************)
\* tokens and cost of the chat calls of a log that returned a response
RECURSIVE spent(_, _)
spent(log, field) ==
    IF log = <<>> THEN 0
    ELSE (IF field = "tokens" THEN log[1].tokens_used ELSE log[1].cost)
         + spent(Tail(log), field)

\* tokens and cost over all records of a usage history
recorded(h, field) == SumOver(DOMAIN h, h, field)

\* C11: when a request of analyze_subtitle_content or analyze_video fails
\* while it processes chunk k > 1, the tokens and the cost of the chat calls
\* the request has completed are in the usage history afterwards.
C11_PartialUsageRecorded ==
    [][(/\ req.pc = "chunks"
        /\ req.entry \in ServiceEntries
        /\ an_ret'.op = "_analyze_chunk"
        /\ an_ret'.raised
        /\ an_ret'.chunk > 1)
       => /\ recorded(usage_history', "tokens")
                = recorded(usage_history, "tokens") + spent(llm_log', "tokens")
          /\ recorded(usage_history', "cost")
                = recorded(usage_history, "cost") + spent(llm_log', "cost")]_vars

(***************************************************************************)
(* C12                                                                     *)
(***************************************************************************)
\* a count kept by the threads, summed over them
RECURSIVE over_threads(_, _)
over_threads(T, field) ==
    IF T = {} THEN 0
    ELSE LET t == CHOOSE x \in T : TRUE
         IN  threads[t][field] + over_threads(T \ {t}, field)

calls_made(field) == over_threads(DOMAIN threads, field)

\* C12: whenever no call is in progress, the usage history holds one record
\* for every record_usage call made, the per-model and per-task aggregates
\* are the sums over these calls, and the cache counters sets and
\* hits + misses are the numbers of set and get calls made.
C12_CountersConsistent ==
    (\A t \in DOMAIN threads : threads[t].pc = "idle") =>
        /\ Len(usage_history) = calls_made("n_record_usage")
        /\ \A d \in {model_stats, task_stats} : \A k \in DOMAIN d :
              /\ d[k].usage_count = calls_made("n_record_usage")
              /\ d[k].total_tokens = calls_made("tokens")
              /\ d[k].total_cost = calls_made("cost")
        /\ stats.sets = calls_made("n_set")
        /\ stats.hits + stats.misses = calls_made("n_get")

(***************************************************************************)
(* C13                                                                     *)
(***************************************************************************)
\* the attempts of the call before the last one all raised
earlier_failed ==
    \A i \in 1..(Len(call.outcomes) - 1) : call.outcomes[i].raised

\* C13: a provider chat call makes at most 3 attempts; every re-attempt
\* comes after a wait of 4 to 10 seconds; the call returns the response of
\* its first successful attempt and makes no attempt after it; and it ends
\* without a response only by raising, after a third failed attempt.
C13_AtMostThreeAttempts ==
    /\ Len(call.outcomes) <= 3
    /\ call.attempt_number <= 3
    /\ \A i \in 1..Len(call.waits) : call.waits[i] >= 4 /\ call.waits[i] <= 10
    /\ call.pc = "attempt" => Len(call.waits) = call.attempt_number - 1
    /\ earlier_failed
    /\ (call.pc = "idle" /\ call.made > 0) =>
          /\ Len(call.outcomes) = call.attempt_number
          /\ Len(call.waits) = call.attempt_number - 1
          /\ Len(call.result) = 1
          /\ IF call.outcomes[Len(call.outcomes)].raised
             THEN call.attempt_number = 3 /\ call.result[1].raised
             ELSE call.result[1] = call.outcomes[Len(call.outcomes)]

\* a call has returned the response of its third attempt, after two waits
C13_Witness ==
    /\ call.pc = "idle"
    /\ call.attempt_number = 3
    /\ call.waits = <<4, 4>>
    /\ ~ call.result[1].raised

(***************************************************************************)
(* C14                                                                     *)
(***************************************************************************)
\* C14: the AnalysisResult of a request carries as total_tokens and
\* total_cost the sums of tokens_used and cost over the chat calls issued for
\* the request, the chunk calls and the merge call, and as chunk_count the
\* number of chunks.
C14_TotalsCoverEveryCall ==
    [][(/\ req.pc = "merge"
        /\ an_ret'.op = "_merge_analysis_results"
        /\ ~ an_ret'.raised)
       => /\ an_ret'.result.total_tokens = spent(llm_log', "tokens")
          /\ an_ret'.result.total_cost = spent(llm_log', "cost")
          /\ an_ret'.result.chunk_count = Len(req.chunks)]_vars

(***************************************************************************)
(* C15                                                                     *)
(***************************************************************************)
\* the records made in the current period of window W: every record whose
\* timestamp is not before the period start
current_period(W) ==
    {i \in DOMAIN usage_history :
        usage_history[i].timestamp >= period_start(W, now)}

\* C15: get_usage_stats(W) reports, and check_limit(.., W) counts, exactly
\* the usage recorded in the current period of W, from the moment
\* record_usage has returned; records from before the period start
\* contribute nothing.
C15_RecordedUsageReflected ==
    /\ tm_ret.op = "get_usage_stats" =>
          /\ tm_ret.stats.total_tokens
                = SumOver(current_period(tm_ret.limit_type), usage_history, "tokens")
          /\ tm_ret.stats.total_cost
                = SumOver(current_period(tm_ret.limit_type), usage_history, "cost")
    /\ tm_ret.op = "check_limit" =>
          (tm_ret.result <=>
             ~ \/ SumOver(current_period(tm_ret.limit_type), usage_history, "tokens")
                    + tm_ret.tokens > limits(tm_ret.limit_type).max_tokens
               \/ SumOver(current_period(tm_ret.limit_type), usage_history, "cost")
                    + tm_ret.cost > limits(tm_ret.limit_type).max_cost)

(***************************************************************************)
(* C16                                                                     *)
(***************************************************************************)
\* C16: every chunk chunk_text returns has content and start_index <
\* end_index, the chunks come in non-decreasing order of start_index, and
\* with overlap_tokens = 0 they tile the source: the first starts at 0, each
\* starts where the one before ends, and each holds the source text between
\* its start_index and its end_index.
C16_ChunksOrderedAndTiling ==
    (cp_ret.op = "chunk_text" /\ ~ cp_ret.raised) =>
        /\ \A i \in 1..Len(cp_ret.chunks) :
              /\ cp_ret.chunks[i].content # <<>>
              /\ cp_ret.chunks[i].start_index < cp_ret.chunks[i].end_index
        /\ \A i \in 1..(Len(cp_ret.chunks) - 1) :
              cp_ret.chunks[i].start_index <= cp_ret.chunks[i + 1].start_index
        /\ config.overlap_tokens = 0 =>
              /\ cp_ret.chunks # <<>> => cp_ret.chunks[1].start_index = 0
              /\ \A i \in 1..(Len(cp_ret.chunks) - 1) :
                    cp_ret.chunks[i + 1].start_index = cp_ret.chunks[i].end_index
              /\ \A i \in 1..Len(cp_ret.chunks) :
                    cp_ret.chunks[i].content =
                        slice(text, cp_ret.chunks[i].start_index,
                              cp_ret.chunks[i].end_index)

(***************************************************************************)
(* C17                                                                     *)
(***************************************************************************)
\* C17: for a text that counts more tokens than max_tokens, chunk_text
\* returns more than one chunk, and at least tokens(text) / max_tokens of
\* them, rounded up.
C17_LongTextSplit ==
    (/\ cp_ret.op = "chunk_text"
     /\ ~ cp_ret.raised
     /\ count_tokens(text) > config.max_tokens)
    => /\ Len(cp_ret.chunks) > 1
       /\ Len(cp_ret.chunks) * config.max_tokens >= count_tokens(text)

(***************************************************************************)
(* C18                                                                     *)
(***************************************************************************)
\* C18: chunk_text never raises: for every text and every configuration
\* with max_tokens >= 1 it returns a list of chunks.
C18_ChunkTextNeverRaises ==
    (cp_ret.op = "chunk_text" /\ config.max_tokens >= 1) => ~ cp_ret.raised

(***************************************************************************)
(* C19                                                                     *)
(***************************************************************************)
\* C19: every get adds one to hits when it returns a live entry and one to
\* misses otherwise, every set adds one to sets, and no other operation
\* changes these counters, so that hits + misses and sets are the numbers of
\* get and set calls made; get_stats reports these counters with
\* hit_rate = hits / (hits + misses), or 0 when no get has been made.
C19_StatsCountCalls ==
    [][/\ mc_ret'.op = "get" =>
            /\ stats'.hits = stats.hits
                               + (IF mc_ret'.found.state = "live" THEN 1 ELSE 0)
            /\ stats'.misses = stats.misses
                               + (IF mc_ret'.found.state = "live" THEN 0 ELSE 1)
            /\ (mc_ret'.found.state = "live") <=> (mc_ret'.value # None)
            /\ stats'.sets = stats.sets
       /\ mc_ret'.op = "set" =>
            /\ stats'.sets = stats.sets + 1
            /\ stats'.hits = stats.hits /\ stats'.misses = stats.misses
       /\ mc_ret'.op \notin {"get", "set"} =>
            /\ stats'.sets = stats.sets
            /\ stats'.hits = stats.hits /\ stats'.misses = stats.misses
       /\ mc_ret'.op = "get_stats" =>
            /\ mc_ret'.value.hits = stats.hits
            /\ mc_ret'.value.misses = stats.misses
            /\ mc_ret'.value.sets = stats.sets
            /\ IF stats.hits + stats.misses = 0
               THEN mc_ret'.value.hit_rate = ZeroRate
               ELSE /\ mc_ret'.value.hit_rate.den > 0
                    /\ mc_ret'.value.hit_rate.num * (stats.hits + stats.misses)
                          = stats.hits * mc_ret'.value.hit_rate.den]_vars

\* get_stats after a set, a get that hit and a get that missed
C19_Witness ==
    /\ mc_ret.op = "get_stats"
    /\ mc_ret.value.sets >= 1
    /\ mc_ret.value.hits = 1
    /\ mc_ret.value.misses = 1
    /\ mc_ret.value.hit_rate = ratio(1, 2)

(***************************************************************************)
(* C20                                                                     *)
(***************************************************************************)
\* the add_service calls, of those made so far, that named name
adds_of(added, name) == {i \in 1..Len(added) : added[i].name = name}

\* the last element of a non-empty set of positions
last_of(S) == CHOOSE i \in S : \A j \in S : j <= i

\* the designated default: the most recent service added with
\* is_default=True, the first service added when there is none
designated(added) ==
    LET marked == {i \in 1..Len(added) : added[i].is_default}
    IN  IF added = <<>> THEN None
        ELSE IF marked = {} THEN added[1].name
        ELSE added[last_of(marked)].name

\* C20: after any sequence of add_service calls, get_service(name) returns
\* the service registered under name, get_service(None) the designated
\* default, and a name that is not registered (None when nothing is
\* registered) raises an error; get_service leaves registry and default as
\* they are.
C20_GetServiceResolves ==
    [][lm_ret'.op = "get_service" =>
         \E n \in {IF lm_ret'.name = None THEN designated(lm_ret.added)
                    ELSE lm_ret'.name} :
           /\ IF adds_of(lm_ret.added, n) = {}
              THEN lm_ret'.returned.raised
              ELSE /\ ~ lm_ret'.returned.raised
                   /\ lm_ret'.returned.service =
                         lm_ret.added[last_of(adds_of(lm_ret.added, n))].service
           /\ manager' = manager]_vars

\* get_service(None) has returned a default that was designated by
\* is_default=True after another service had been added first
C20_Witness ==
    /\ lm_ret.op = "get_service"
    /\ lm_ret.name = None
    /\ ~ lm_ret.returned.raised
    /\ Len(lm_ret.added) >= 2
    /\ lm_ret.returned.name # lm_ret.added[1].name
    /\ lm_ret.returned.name = designated(lm_ret.added)

(***************************************************************************)
(* C21                                                                     *)
(***************************************************************************)
\* the importance the filter reads in an entry
importance_of(entry) == dict_get(entry, "importance", 1)

\* C21: the knowledge_entries of every result analyze_subtitle returns, for
\* one chunk or several, have importance 3 or more each, stand in order of
\* non-increasing importance and are max_knowledge_entries at most.
C21_KnowledgeEntriesFiltered ==
    [][(/\ req.pc = "merge"
        /\ an_ret'.op = "_merge_analysis_results"
        /\ ~ an_ret'.raised)
       => LET entries == an_ret'.result.knowledge_entries
          IN  /\ \A i \in 1..Len(entries) : importance_of(entries[i]) >= 3
              /\ \A i, j \in 1..Len(entries) :
                    i < j => importance_of(entries[i]) >= importance_of(entries[j])
              /\ Len(entries) <= analysis_config.max_knowledge_entries]_vars

(***************************************************************************)
(* C22                                                                     *)
(***************************************************************************)
\* the key points of all chunk results, in chunk order
all_key_points_of(results) ==
    extend_all([i \in 1..Len(results) |-> dict_get(results[i], "key_points", <<>>)])

\* the points of a list that are 10 characters long or longer and equal,
\* after lower-casing and trimming, to no point before them; in their order
first_long_points(points) ==
    LET keep == {i \in 1..Len(points) :
                    /\ Len(points[i]) >= 10
                    /\ \A j \in 1..(i - 1) :
                          strip(lower(points[j])) # strip(lower(points[i]))}
        RECURSIVE from(_)
        from(i) == IF i > Len(points) THEN <<>>
                   ELSE (IF i \in keep THEN <<points[i]>> ELSE <<>>) \o from(i + 1)
    IN  from(1)

\* C22: the key_points of a merge of several chunk results are the key points
\* of all chunks in chunk order without the points shorter than 10 characters
\* and without every point that equals an earlier one after lower-casing and
\* trimming; what remains keeps its order.
C22_KeyPointsDeduplicated ==
    [][(/\ req.pc = "merge"
        /\ Len(req.analysis_results) > 1
        /\ an_ret'.op = "_merge_analysis_results"
        /\ ~ an_ret'.raised)
       => an_ret'.merged.key_points
             = take(first_long_points(all_key_points_of(req.analysis_results)), 10)]_vars

(***************************************************************************)
(* C23                                                                     *)
(***************************************************************************)
\* C23: once a chat call has given a result for content c and service name
\* s, every later _analyze_chunk(c, s) returns that result without a chat
\* call, and _analyze_chunk returns a cached result only to the content and
\* service name it was produced for.
C23_CachedPerContentAndService ==
    [][(req.pc = "chunks" /\ an_ret'.op = "_analyze_chunk")
       => LET asked == <<req.chunks[an_ret'.chunk].content, req.service_name>>
          IN  /\ asked \in DOMAIN analysed
                 => /\ ~ an_ret'.raised
                    /\ ~ an_ret'.called
                    /\ an_ret'.value = analysed[asked]
              /\ (~ an_ret'.raised /\ ~ an_ret'.called)
                 => /\ asked \in DOMAIN analysed
                    /\ an_ret'.value = analysed[asked]]_vars

(***************************************************************************)
(* C24                                                                     *)
(***************************************************************************)
\* the known models whose estimated cost for the tokens is within the budget
models_within(tokens, budget) ==
    {i \in 1..Len(recommended_models) :
        within_budget(tokens, recommended_models[i].cost_per_1k, budget)}

\* the price per 1K tokens of a known model
price_of(model) ==
    recommended_models[CHOOSE i \in 1..Len(recommended_models) :
                          recommended_models[i].model = model].cost_per_1k

\* C24: get_model_recommendation(tokens, budget) returns the first model in
\* ascending price order whose estimated cost is within the budget, hence a
\* model within the budget whenever one exists, and the cheapest known model
\* when none is within the budget.
C24_CheapestModelFirst ==
    tm_ret.op = "get_model_recommendation" =>
       LET fits == models_within(tm_ret.tokens, tm_ret.budget)
           among == IF fits = {} THEN 1..Len(recommended_models) ELSE fits
       IN  /\ \E i \in among : recommended_models[i].model = tm_ret.result
           /\ \A i \in among :
                 price_of(tm_ret.result) <= recommended_models[i].cost_per_1k

(***************************************************************************)
(* C25                                                                     *)
(***************************************************************************)
\* what the loop returns is what _simple_chunking computes in one piece
SimpleChunkingAgrees ==
    (cp_ret.op = "_simple_chunking" /\ cp_ret.pc = "return")
       => cp_ret.chunks = _simple_chunking(text, config)

\* every iteration that stays in the loop moves the cursor forward, and a cut
\* that is not the tentative one is the end of a terminator that lies less
\* than LOOK_BACK characters before the tentative cut and leaves
\* min_tokens * 3 characters or more in the chunk
C25_IterationAdvances ==
    [][(cp_ret.op = "_simple_chunking" /\ cp_ret.pc = "while"
        /\ cp_ret'.pc = "while")
       => LET cut == cp_ret'.current_position
          IN  /\ cut > cp_ret.current_position
              /\ cut <= Len(text)
              /\ cut # cp_ret'.tentative
                 => /\ is_terminal(text[cut])
                    /\ cut < cp_ret'.tentative
                    /\ cp_ret'.tentative - cut < LOOK_BACK
                    /\ cut - cp_ret.current_position
                          >= config.min_tokens * CHARS_PER_TOKEN]_vars

\* C25: in fallback mode, with max_tokens >= 1 and min_tokens >= 0, every
\* iteration of the loop of _simple_chunking that does not leave the loop
\* moves the cursor strictly forward, so that the loop is left; a cut is
\* moved back to the end of a terminator only within LOOK_BACK characters
\* before the tentative cut and with min_tokens * 3 characters or more left
\* in the chunk.
C25_FallbackTerminates ==
    /\ C25_IterationAdvances
    /\ <>(cp_ret.op = "_simple_chunking" /\ cp_ret.pc = "return")

\* a loop of several iterations has been left after a cut was moved back to
\* a sentence end
C25_Witness ==
    /\ cp_ret.op = "_simple_chunking"
    /\ cp_ret.pc = "return"
    /\ cp_ret.iterations >= 3
    /\ \E i \in 1..(Len(cp_ret.chunks) - 1) :
          /\ cp_ret.chunks[i].end_index - cp_ret.chunks[i].start_index
                < config.max_tokens * CHARS_PER_TOKEN
          /\ is_terminal(text[cp_ret.chunks[i].end_index])

(***************************************************************************)
(* C26                                                                     *)
(***************************************************************************)
\* the positions of the chunks of a list that reach min_tokens
retained(chunks, min_tokens) ==
    {i \in 1..Len(chunks) : count_tokens(chunks[i].content) >= min_tokens}

\* the k-th smallest member of a set of numbers
nth(S, k) == CHOOSE i \in S : Cardinality({j \in S : j <= i}) = k

\* C26: every chunk optimize_chunks returns has min_tokens tokens or more and
\* the list returned is no longer than the one given: the chunks that reach
\* min_tokens are retained in order, every shorter chunk is appended to the
\* retained chunk before it, which ends where the appended chunk ends, and
\* shorter chunks before the first retained chunk are dropped.
C26_OptimizedChunksLongEnough ==
    cp_ret.op = "optimize_chunks" =>
       LET input == cp_ret.input
           out == cp_ret.chunks
           K == retained(input, config.min_tokens)
       IN  /\ \A k \in 1..Len(out) :
                 count_tokens(out[k].content) >= config.min_tokens
           /\ Len(out) <= Len(input)
           /\ Len(out) = Cardinality(K)
           /\ \A k \in 1..Len(out) :
                 LET first == nth(K, k)
                     last == IF k < Cardinality(K) THEN nth(K, k + 1) - 1
                             ELSE Len(input)
                 IN  /\ out[k].start_index = input[first].start_index
                     /\ out[k].end_index = input[last].end_index
                     /\ out[k].content
                           = join([j \in 1..(last - first + 1) |->
                                      input[first + j - 1].content])

\* a list of three chunks has been optimized: the first was dropped, the
\* third was appended to the second
C26_Witness ==
    /\ cp_ret.op = "optimize_chunks"
    /\ Len(cp_ret.input) = 3
    /\ retained(cp_ret.input, config.min_tokens) = {2}
    /\ cp_ret.input[3].content # <<>>
    /\ Len(cp_ret.chunks) = 1
    /\ cp_ret.chunks[1].content = cp_ret.input[2].content \o cp_ret.input[3].content
    /\ cp_ret.chunks[1].end_index = cp_ret.input[3].end_index

(***************************************************************************)
(* C27                                                                     *)
(***************************************************************************)
\* C27: as long as every record of usage comes from
\* AnalysisService.analyze_subtitle_content, the tokens and the cost recorded
\* in the current daily period stay within the daily max_tokens and max_cost.
C27_DailyCeilingsKept ==
    (\A i \in DOMAIN usage_history :
        usage_history[i].task_type = "subtitle_analysis")
    => /\ SumOver(current_period(DAILY), usage_history, "tokens")
             <= limits(DAILY).max_tokens
       /\ SumOver(current_period(DAILY), usage_history, "cost")
             <= limits(DAILY).max_cost

(***************************************************************************)
(* C28                                                                     *)
(***************************************************************************)
\* C28: _analyze_chunk returns no cached result that was stored more than
\* cache_ttl seconds earlier: the lookup of such an entry is a miss and a
\* chat call is made, whether cleanup_cache has run since or not.
C28_ExpiredEntryIsMiss ==
    [][(req.pc = "chunks" /\ an_ret'.op = "_analyze_chunk")
       => LET cache_key == _get_cache_key(req.chunks[an_ret'.chunk].content,
                                          req.service_name)
          IN  (/\ cache_key \in DOMAIN cache_timestamps
               /\ now - cache_timestamps[cache_key] > analysis_config.cache_ttl)
              => an_ret'.called]_vars

(***************************************************************************)
(* C29                                                                     *)
(***************************************************************************)
\* C29: MemoryCache.set on a key that is present removes no other key, also
\* in a cache that holds max_size entries: the keys after the call are the
\* keys before it, and evictions is unchanged.
C29_OverwriteKeepsKeys ==
    [][(mc_ret'.op = "set" /\ stats'.sets = stats.sets + 1
        /\ mc_ret'.key \in key_set(cache))
       => /\ key_set(cache') = key_set(cache)
          /\ stats'.evictions = stats.evictions]_vars

(***************************************************************************)
(* C30                                                                     *)
(***************************************************************************)
\* C30: every chat call of one analyze_subtitle request, the calls for the
\* chunks and the call that consolidates the summaries, goes to the service
\* the request's service_name selects, and model_used names the model of that
\* service.
C30_CallsGoToSelectedService ==
    [][(/\ req.pc = "merge"
        /\ an_ret'.op = "_merge_analysis_results"
        /\ ~ an_ret'.raised)
       => LET selected == get_service(req.service_name)
          IN  /\ \A j \in 1..Len(llm_log') : llm_log'[j].service = selected.name
              /\ an_ret'.result.model_used = selected.model]_vars

====
